---- MODULE Spec2Model ----
(***************************************************************************)
(* MaaltijdPlus: the two in-memory rate limiters (HTTP middleware `proxy`  *)
(* and the server action `analyzeMeal`), the client-side access gate       *)
(* (`AuthProvider`: checkAccess, initializeAuth and the auth listener) and *)
(* the form that analyses and uploads a meal (`AddMealForm`).              *)
(***************************************************************************)
EXTENDS Integers, Sequences, FiniteSets, Bags, TLC

(***************************************************************************)
(* Bounds of the exploration (not program constants).                      *)
(***************************************************************************)
\* A denied HTTP request still increments count; a key stops sending once its
\* count is this far above the limit.
MaxOver == 1
\* While one record is being driven to its limit, every other record stays at
\* or below this count.
MaxLight == 1

(***************************************************************************)
(* Program constants.                                                      *)
(***************************************************************************)
HttpWindowMs == 10 * 60 * 1000          \* part_002:31  windowMs
HttpMaxRequests == 100                  \* part_002:32  maxRequests
SweepSize == 1000                       \* part_002:47  rateLimit.size > 1000
AiWindowMs == 60 * 60 * 1000            \* actions.ts:19 windowMs
AiMaxRequests == 20                     \* actions.ts:20 maxRequests
MaxBase64Len == 15 * 1024 * 1024        \* actions.ts:42

VARIABLES
    now,                \* Date.now() of the server process
    rateLimit,          \* part_002:5   Map ip -> {count, timestamp}
    others,             \* entries of rateLimit held by IPs that are not followed one by one
    analysisRateLimit,  \* actions.ts:10 Map ip -> {count, timestamp}
    apiKey,             \* actions.ts:6  process.env.GEMINI_API_KEY is set
    clients,            \* the client addresses that send requests in this run
    lastReq,            \* the last request handled and the answer it got
    win,                \* history: per limiter and key, the running window and its request count
    analyses            \* the invocations of analyzeMeal that are suspended at an await

rlVars == <<now, rateLimit, others, analysisRateLimit, apiKey, clients, lastReq, win, analyses>>

VARIABLES
    \* AuthProvider (part_005:47-362), the browser and the identity provider
    user,               \* part_005:48  useState<User | null>(null)
    loading,            \* part_005:49  useState(true)
    cache,              \* localStorage access_<email> / access_ts_<email>
    pending,            \* auth_redirect_pending in localStorage and in sessionStorage
    storageOk,          \* localStorage and sessionStorage are usable in this browser
    hardcoded,          \* part_005:30  HARDCODED_ALLOW_LIST, as deployed
    whitelist,          \* the users_whitelist collection: emails that are a document id / an email field
    clock,              \* Date.now() of the browser, in seconds
    currentUser,        \* auth.currentUser
    events,             \* auth state notifications not yet delivered to the listener
    redirectResult,     \* what getRedirectResult(auth) yields on this page load
    isMobileSafari,     \* part_005:161
    subscribed,         \* onAuthStateChanged listener registered
    isActive,           \* part_005:151
    initPc,             \* where initializeAuth stands
    isRedirectPending,  \* part_005:181, read once by initializeAuth
    timer,              \* part_005:229 setTimeout armed
    calls,              \* the checkAccess invocations that are suspended at an await
    signIns,            \* sign-ins completed at the provider since the page loaded
    done,               \* history: the checkAccess invocation that returned in the last step, if any
    runs,               \* history: per identity, checkAccess invocations of its sign-in attempt
    outcome,            \* history: per identity, the first outcome of its sign-in attempt
    fx                  \* history: side effects of the running sign-in attempt

authVars == <<user, loading, cache, pending, storageOk, hardcoded, whitelist, clock,
              currentUser, events, redirectResult, isMobileSafari, subscribed, isActive,
              initPc, isRedirectPending, timer, calls, signIns, done, runs, outcome, fx>>

VARIABLES
    \* signInWithGoogle (part_005:262-344) and the device it runs on
    env,                \* navigator.userAgent (its product tokens) and the display mode
    si,                 \* where the running signInWithGoogle call stands, and its history
    reloads,            \* page loads caused by signInWithRedirect
    form,               \* AddMealForm (ThemeToggle.tsx:51-461): its state, its suspended
                        \* handlers, and the meals store as far as the form reaches it
    login               \* Login (Login.tsx:6-16): the email-link form and the links sent

siVars == <<env, si, reloads, form, login>>

vars == <<rlVars, authVars, siVars>>

(***************************************************************************)
(* Time.  Date.now() only moves forward; the instants are those at which   *)
(* a window opened at 0 (or at a later instant) is inside, exactly at, and *)
(* past either window length.                                              *)
(***************************************************************************)
Times == {0, HttpWindowMs, HttpWindowMs + 1, AiWindowMs - 1, AiWindowMs, AiWindowMs + 1}

(***************************************************************************)
(* Request headers.  A header is the sequence of its comma separated       *)
(* parts; <<>> is an absent header.  A user agent is a sequence of         *)
(* characters.                                                             *)
(***************************************************************************)
NoHeader == <<>>
IpA == "1.2.3.4"
IpB == "5.6.7.8"
LocalIp == "127.0.0.1"

\* String.prototype.toLowerCase on the characters the user agents use
ToLowerChar(c) ==
    CASE c = "B" -> "b"
      [] c = "C" -> "c"
      [] c = "G" -> "g"
      [] c = "M" -> "m"
      [] OTHER -> c

ToLowerCase(s) == [i \in 1..Len(s) |-> ToLowerChar(s[i])]

\* String.prototype.includes
Includes(s, pat) ==
    \E i \in 0..(Len(s) - Len(pat)) :
        \A j \in 1..Len(pat) : s[i + j] = pat[j]

\* part_002:8-11
BOT_AGENTS == {
    <<"b","o","t">>,
    <<"s","p","i","d","e","r">>,
    <<"c","r","a","w","l">>,
    <<"h","e","a","d","l","e","s","s">>,
    <<"p","u","p","p","e","t","e","e","r">>,
    <<"s","e","l","e","n","i","u","m">>,
    <<"p","y","t","h","o","n","-","r","e","q","u","e","s","t","s">>,
    <<"n","o","d","e","-","f","e","t","c","h">>,
    <<"a","x","i","o","s">>,
    <<"c","u","r","l">>,
    <<"w","g","e","t">> }

GoogleBotPat == <<"g","o","o","g","l","e","b","o","t">>

UaBrowser == <<"M","o","z">>
UaCurl == <<"C","u","r","l">>
UaGoogle == <<"G","o","o","g","l","e","b","o","t">>
UaBot == <<"m","y","B","o","t">>

UserAgents == {NoHeader, UaBrowser, UaCurl, UaGoogle, UaBot}

\* The headers each client address sends: IpA through a forwarding proxy, IpB
\* with x-real-ip only, a local client with neither header.
HeadersOf(c) ==
    IF c = IpA THEN { [xff |-> <<c, "10.0.0.1">>, realIp |-> ""] }
    ELSE IF c = IpB THEN { [xff |-> NoHeader, realIp |-> c], [xff |-> <<"">>, realIp |-> c] }
    ELSE { [xff |-> NoHeader, realIp |-> ""] }

Clients == {IpA, IpB, LocalIp}

\* part_002:19  x-forwarded-for?.split(',')[0] || x-real-ip || '127.0.0.1'
ProxyIp(h) ==
    IF h.xff # NoHeader /\ Head(h.xff) # "" THEN Head(h.xff)
    ELSE IF h.realIp # "" THEN h.realIp
    ELSE LocalIp

\* actions.ts:16  headersList.get("x-forwarded-for") || "unknown"
\* (the whole header value is the key; <<"unknown">> stands for "unknown")
AnalyzeIp(h) ==
    IF h.xff # NoHeader /\ h.xff # <<"">> THEN h.xff ELSE <<"unknown">>

(***************************************************************************)
(* The limiter tables are functions from the keys seen so far.             *)
(***************************************************************************)
Put(tbl, k, rec) == [x \in DOMAIN tbl \cup {k} |-> IF x = k THEN rec ELSE tbl[x]]
Drop(tbl, ks) == [x \in DOMAIN tbl \ ks |-> tbl[x]]
NoOthers == [n |-> 0, timestamp |-> 0]

\* rateLimit.size
TableSize(tbl, oth) == Cardinality(DOMAIN tbl) + oth.n

(***************************************************************************)
(* HTTP middleware: proxy (part_002:13-57).                                *)
(***************************************************************************)
\* part_002:24-25 without the allowance for Googlebot
IsBlockedBot_noAllowance(ua) ==
    \E bot \in BOT_AGENTS : Includes(ToLowerCase(ua), bot)

\* part_002:24-25  isBot && !userAgent.includes('googlebot')
IsBlockedBot(ua) ==
    LET userAgent == ToLowerCase(ua)
        isBot == \E bot \in BOT_AGENTS : Includes(userAgent, bot)
    IN  isBot /\ ~Includes(userAgent, GoogleBotPat)

\* part_002:36  !currentLimit || (now - currentLimit.timestamp) > windowMs
HttpStartsWindow(tbl, ip, t) ==
    ip \notin DOMAIN tbl \/ (t - tbl[ip].timestamp) > HttpWindowMs

\* mutant of HttpExceeded: off by one
HttpExceeded_geq(count) == count >= HttpMaxRequests

\* part_002:40  currentLimit.count > maxRequests
HttpExceeded(count) == count > HttpMaxRequests

\* part_002:34-44 with a refused request that restarts the window:
\* currentLimit.timestamp = now before line 41
HttpLimit_restart(tbl, ip, t) ==
    IF HttpStartsWindow(tbl, ip, t)
    THEN [tbl |-> Put(tbl, ip, [count |-> 1, timestamp |-> t]), denied |-> FALSE]
    ELSE LET c == tbl[ip].count + 1
         IN  [tbl |-> Put(tbl, ip, [count |-> c,
                                    timestamp |-> IF HttpExceeded(c) THEN t
                                                  ELSE tbl[ip].timestamp]),
              denied |-> HttpExceeded(c)]

\* part_002:34-44: the table after the request, and whether it is answered 429
HttpLimit(tbl, ip, t) ==
    IF HttpStartsWindow(tbl, ip, t)
    THEN [tbl |-> Put(tbl, ip, [count |-> 1, timestamp |-> t]), denied |-> FALSE]
    ELSE LET c == tbl[ip].count + 1
         IN  [tbl |-> Put(tbl, ip, [count |-> c, timestamp |-> tbl[ip].timestamp]),
              denied |-> HttpExceeded(c)]

\* part_002:49 with the comparison made weak
HttpStale_leq(timestamp, t) == timestamp <= t - HttpWindowMs

\* part_002:50  value.timestamp < threshold
HttpStale(timestamp, t) == timestamp < t - HttpWindowMs

\* part_002:47-54 with a sweep that empties the table: rateLimit.clear()
HttpSweep_clear(tbl, oth, t) ==
    IF TableSize(tbl, oth) > SweepSize
    THEN [tbl |-> <<>>, oth |-> NoOthers]
    ELSE [tbl |-> tbl, oth |-> oth]

\* part_002:47-54: the sweep; the entries of `others` share one timestamp
HttpSweep(tbl, oth, t) ==
    IF TableSize(tbl, oth) > SweepSize
    THEN [tbl |-> Drop(tbl, {k \in DOMAIN tbl : HttpStale(tbl[k].timestamp, t)}),
          oth |-> IF oth.n > 0 /\ HttpStale(oth.timestamp, t) THEN NoOthers ELSE oth]
    ELSE [tbl |-> tbl, oth |-> oth]

(***************************************************************************)
(* History of the windows, kept beside the tables: a window opens with the *)
(* first request of a key and with the first request more than W after the *)
(* window's start; a request less than W after the start is in the window. *)
(* A request exactly W after the start is counted the way the limiter      *)
(* treated it (`opened`).  `refused` records that the key was refused at   *)
(* least once.                                                             *)
(***************************************************************************)
WinStep(w, k, t, W, opened, refused) ==
    LET before == k \in DOMAIN w /\ w[k].refused IN
    IF k \notin DOMAIN w \/ t - w[k].start > W \/ (t - w[k].start = W /\ opened)
    THEN Put(w, k, [start |-> t, n |-> 1, refused |-> before \/ refused])
    ELSE Put(w, k, [start |-> w[k].start, n |-> w[k].n + 1, refused |-> before \/ refused])

(***************************************************************************)
(* Exploration bounds, as guards on the number of requests a key has sent  *)
(* in its window: at most MaxOver more than the limit, and at most one     *)
(* record, over both tables, above MaxLight.                               *)
(***************************************************************************)
\* No request yet.  `plain` is the table of the HTTP limiter as it would be
\* were no record ever swept, `plainDenied` what that limiter answered last.
\* `payload` is what analyzeMeal was last called with, and `called` the keys in
\* whose current window a request has reached the AI endpoint.
NoWindows == [http |-> <<>>, ai |-> <<>>, plain |-> <<>>, plainDenied |-> FALSE,
              payload |-> [len |-> 0, mimeType |-> ""], called |-> {}]

CalledStep(called, k, fresh, reached) ==
    IF reached THEN called \cup {k} ELSE IF fresh THEN called \ {k} ELSE called

HeavyHttp(ip) == \E k \in DOMAIN rateLimit \ {ip} : rateLimit[k].count > MaxLight
HeavyAi(key) == \E k \in DOMAIN analysisRateLimit \ {key} : analysisRateLimit[k].count > MaxLight

HttpMaySend(ip, count) ==
    /\ count <= HttpMaxRequests + MaxOver
    /\ count <= MaxLight \/ ~(HeavyHttp(ip) \/ HeavyAi(<<>>))

AiMaySend(key, n) ==
    /\ n <= AiMaxRequests + MaxOver
    /\ n <= MaxLight \/ ~(HeavyHttp("") \/ HeavyAi(key))

Paths == {"/favicon.ico", "/"}

HttpAnswer(ip, result, limited) ==
    [svc |-> "http", ip |-> ip, hdr |-> <<>>, result |-> result, limited |-> limited]

\* part_002:13-57
proxy(c, path, h, ua) ==
    LET ip == ProxyIp(h) IN
    /\ c \in clients
    /\ IF path = "/favicon.ico"
       THEN /\ lastReq' = HttpAnswer(ip, "next", FALSE)
            /\ UNCHANGED <<rateLimit, others, win>>
       ELSE IF IsBlockedBot(ua)
       THEN /\ lastReq' = HttpAnswer(ip, "403", FALSE)
            /\ UNCHANGED <<rateLimit, others, win>>
       ELSE LET lim == HttpLimit(rateLimit, ip, now)
                swept == HttpSweep(lim.tbl, others, now)
            IN  /\ HttpMaySend(ip, lim.tbl[ip].count)
                /\ win' = [win EXCEPT !.http =
                              WinStep(@, ip, now, HttpWindowMs, lim.tbl[ip].timestamp = now, lim.denied),
                                     !.plain = HttpLimit(@, ip, now).tbl,
                                     !.plainDenied = HttpLimit(win.plain, ip, now).denied]
                /\ IF lim.denied
                   THEN /\ rateLimit' = lim.tbl
                        /\ others' = others
                        /\ lastReq' = HttpAnswer(ip, "429", TRUE)
                   ELSE /\ rateLimit' = swept.tbl
                        /\ others' = swept.oth
                        /\ lastReq' = HttpAnswer(ip, "next", TRUE)
    /\ UNCHANGED <<now, analysisRateLimit, apiKey, clients, analyses, authVars, siVars>>

(***************************************************************************)
(* Server action: analyzeMeal (actions.ts:12-109).                         *)
(***************************************************************************)
\* actions.ts:23  currentLimit && (now - currentLimit.timestamp) < windowMs
AiInWindow(tbl, ip, t) ==
    ip \in DOMAIN tbl /\ (t - tbl[ip].timestamp) < AiWindowMs

\* actions.ts:24 with the comparison made strict
AiExceeded_gt(count) == count > AiMaxRequests

\* actions.ts:24  currentLimit.count >= maxRequests
AiExceeded(count) == count >= AiMaxRequests

\* actions.ts:22-30 with a new window that empties the table first:
\* analysisRateLimit.clear() before line 23
AiLimit_clear(tbl, ip, t) ==
    IF AiInWindow(tbl, ip, t)
    THEN IF AiExceeded(tbl[ip].count)
         THEN [tbl |-> tbl, denied |-> TRUE]
         ELSE [tbl |-> Put(tbl, ip, [count |-> tbl[ip].count + 1,
                                     timestamp |-> tbl[ip].timestamp]),
               denied |-> FALSE]
    ELSE [tbl |-> Put(<<>>, ip, [count |-> 1, timestamp |-> t]), denied |-> FALSE]

\* actions.ts:22-30 with the count taken before the comparison, as in the
\* HTTP limiter: currentLimit.count++ before line 24
AiLimit_countFirst(tbl, ip, t) ==
    IF AiInWindow(tbl, ip, t)
    THEN [tbl |-> Put(tbl, ip, [count |-> tbl[ip].count + 1, timestamp |-> tbl[ip].timestamp]),
          denied |-> AiExceeded(tbl[ip].count)]
    ELSE [tbl |-> Put(tbl, ip, [count |-> 1, timestamp |-> t]), denied |-> FALSE]

\* actions.ts:22-30: the table after the request, and whether the limit error is thrown
AiLimit(tbl, ip, t) ==
    IF AiInWindow(tbl, ip, t)
    THEN IF AiExceeded(tbl[ip].count)
         THEN [tbl |-> tbl, denied |-> TRUE]
         ELSE [tbl |-> Put(tbl, ip, [count |-> tbl[ip].count + 1,
                                     timestamp |-> tbl[ip].timestamp]),
               denied |-> FALSE]
    ELSE [tbl |-> Put(tbl, ip, [count |-> 1, timestamp |-> t]), denied |-> FALSE]

\* The payloads a caller sends: the length of imageBase64 and the mime type.
Payloads == [len : {0, 1000, MaxBase64Len, MaxBase64Len + 1}, mimeType : {"", "image/jpeg"}]

\* What the AI endpoint does with a call.  A text is the sequence of its
\* pieces: an opening fence "```json\n", a closing fence "\n```", a JSON
\* document, or prose.  An error carries what the handler inspects.
AiTexts == { <<>>, <<"json">>, <<"fence-open", "json", "fence-close">>,
             <<"prose">>, <<"prose", "json">>, <<"fence-open", "prose", "fence-close">> }
AiErrors == { [status |-> 429, name |-> "Error", apiKeyMsg |-> FALSE, timeoutMsg |-> FALSE],
              [status |-> 400, name |-> "Error", apiKeyMsg |-> TRUE, timeoutMsg |-> FALSE],
              [status |-> 0, name |-> "AbortError", apiKeyMsg |-> FALSE, timeoutMsg |-> FALSE],
              [status |-> 0, name |-> "Error", apiKeyMsg |-> FALSE, timeoutMsg |-> TRUE],
              [status |-> 500, name |-> "Error", apiKeyMsg |-> FALSE, timeoutMsg |-> FALSE] }
AiReplies == [text : AiTexts] \cup [error : AiErrors]

\* actions.ts:80  text.replace(/```json\n?|\n?```/g, "").trim()
StripFences(text) == SelectSeq(text, LAMBDA p : p \notin {"fence-open", "fence-close"})

\* actions.ts:88-107: the error analyzeMeal throws for an error caught at the call
AiCaught(e) ==
    IF e.status = 429 THEN "AI limiet bereikt"
    ELSE IF e.apiKeyMsg THEN "Configuratie fout"
    ELSE IF e.name = "AbortError" \/ e.timeoutMsg THEN "Timeout"
    ELSE "Server Fout"

PlainError == [status |-> 0, name |-> "Error", apiKeyMsg |-> FALSE, timeoutMsg |-> FALSE]

\* actions.ts:71-107: the outcome of the call to the AI endpoint
AiOutcome(reply) ==
    IF "error" \in DOMAIN reply
    THEN [result |-> AiCaught(reply.error), msg |-> "sdk"]
    ELSE IF reply.text = <<>>
    THEN [result |-> AiCaught(PlainError), msg |-> "AI gaf een lege reactie terug."]
    ELSE IF StripFences(reply.text) = <<"json">>
    THEN [result |-> "json", msg |-> ""]
    ELSE [result |-> AiCaught(PlainError), msg |-> "AI reactie was geen geldige JSON."]

AiAnswer(key, result, msg, called) ==
    [svc |-> "ai", ip |-> "", hdr |-> key, result |-> result, msg |-> msg, called |-> called]

\* actions.ts:12-109 with lines 32-44 moved before line 22: a request is
\* validated first and counted only when valid
analyzeMealCall_validateFirst(c, h, payload, reply) ==
    LET ip == AnalyzeIp(h)
        thrown == IF ~apiKey THEN "GEMINI_API_KEY is not set"
                  ELSE IF payload.len = 0 \/ payload.mimeType = "" THEN "Ongeldige invoer"
                  ELSE IF payload.len > MaxBase64Len THEN "Afbeelding is te groot"
                  ELSE ""
        lim == AiLimit(analysisRateLimit, ip, now)
        w == WinStep(win.ai, ip, now, AiWindowMs, ~AiInWindow(analysisRateLimit, ip, now),
                     thrown = "" /\ lim.denied)
    IN  /\ c \in clients
        /\ AiMaySend(ip, w[ip].n)
        /\ analysisRateLimit' = IF thrown # "" THEN analysisRateLimit ELSE lim.tbl
        /\ lastReq' =
              IF thrown # "" THEN AiAnswer(ip, thrown, "", FALSE)
              ELSE IF lim.denied THEN AiAnswer(ip, "limit", "", FALSE)
              ELSE LET out == AiOutcome(reply)
                   IN  AiAnswer(ip, out.result, out.msg, TRUE)
        /\ win' = [win EXCEPT !.ai = w, !.payload = payload,
                              !.called = CalledStep(@, ip, w[ip].n = 1, lastReq'.called)]
        /\ UNCHANGED <<now, rateLimit, others, apiKey, clients, analyses, authVars,
                       env, si, reloads, login>>

\* actions.ts:12-109: one invocation, for whichever page made the call
analyzeMealCall(c, h, payload, reply) ==
    LET ip == AnalyzeIp(h)
        lim == AiLimit(analysisRateLimit, ip, now)
        w == WinStep(win.ai, ip, now, AiWindowMs, lim.tbl[ip].timestamp = now, lim.denied)
    IN  /\ c \in clients
        /\ AiMaySend(ip, w[ip].n)
        /\ analysisRateLimit' = lim.tbl
        /\ lastReq' =
              IF lim.denied THEN AiAnswer(ip, "limit", "", FALSE)
              ELSE IF ~apiKey THEN AiAnswer(ip, "GEMINI_API_KEY is not set", "", FALSE)
              ELSE IF payload.len = 0 \/ payload.mimeType = ""
              THEN AiAnswer(ip, "Ongeldige invoer", "", FALSE)
              ELSE IF payload.len > MaxBase64Len
              THEN AiAnswer(ip, "Afbeelding is te groot", "", FALSE)
              ELSE LET out == AiOutcome(reply)
                   IN  AiAnswer(ip, out.result, out.msg, TRUE)
        /\ win' = [win EXCEPT !.ai = w, !.payload = payload,
                              !.called = CalledStep(@, ip, w[ip].n = 1, lastReq'.called)]
        /\ UNCHANGED <<now, rateLimit, others, apiKey, clients, analyses, authVars,
                       env, si, reloads, login>>

\* actions.ts:12-109: an invocation by a client that is not followed further
analyzeMeal(c, h, payload, reply) ==
    analyzeMealCall(c, h, payload, reply) /\ UNCHANGED form

Tick ==
    /\ \E t \in Times : t > now /\ now' = t
    /\ UNCHANGED <<rateLimit, others, analysisRateLimit, apiKey, clients, lastReq, win, analyses,
                   authVars, siVars>>

(***************************************************************************)
(* The access gate and the session observer: AuthProvider (part_005).      *)
(***************************************************************************)
\* Bounds of the exploration
MaxCalls == 3       \* checkAccess invocations suspended at the same time
MaxSignIns == 1     \* sign-ins completed at the provider after the page load
FxCap == 2          \* the history counters stop counting here

Null == "null"
Alice == "alice"    \* a Google account with an email address
Anon == "anon"      \* an account for which the provider returns no email
Users == {Alice, Anon}
AliceEmail == "a@x.com"
Emails == {AliceEmail}
\* currentUser.email (null is "")
EmailOf(u) == IF u = Alice THEN AliceEmail ELSE ""

\* part_005:82  30 * 24 * 60 * 60 * 1000 ms.  The browser clock and the cached
\* timestamps are counted in seconds here: 30 days in milliseconds exceed the
\* integers of the model checker, and the comparison is the same at every
\* instant that is a whole second.
CacheMs == 30 * 24 * 60 * 60
NoTs == 0 - 1       \* getItem returned null
BadTs == 0 - 2      \* the stored text is not a number, such as "yesterday"
EmptyTs == 0 - 3    \* the stored text is the empty string
NoEntry == [access |-> "", ts |-> NoTs]
NoMarker == [local |-> FALSE, session |-> FALSE]

Sat(n) == IF n >= FxCap THEN FxCap ELSE n + 1
NoFx == [signOut |-> 0, toast |-> 0]
NoDone == [who |-> Null]

\* part_005:52-58 safeLocalStorageGet on the two access keys of an email
safeLocalStorageGet(c, email) == IF storageOk THEN c[email] ELSE NoEntry

\* part_005:60-64 safeLocalStorageSet of access_<email> and access_ts_<email>
safeLocalStorageSet(c, email, t) ==
    IF storageOk THEN [c EXCEPT ![email] = [access |-> "true", ts |-> t]] ELSE c

\* A removal that records the refusal instead: access_<email> = 'false'
safeLocalStorageRemove_false(c, email) ==
    IF storageOk THEN [c EXCEPT ![email] = [access |-> "false", ts |-> NoTs]] ELSE c

\* part_005:66-70 safeLocalStorageRemove of access_<email> and access_ts_<email>
safeLocalStorageRemove(c, email) ==
    IF storageOk THEN [c EXCEPT ![email] = NoEntry] ELSE c

\* A string or null taken as a condition: null and "" are falsy
Truthy(ts) == ts \notin {NoTs, EmptyTs}

\* Number(text): NaN for a text that is not a number
ToNumber(ts) == IF ts = BadTs THEN [nan |-> TRUE, v |-> 0] ELSE [nan |-> FALSE, v |-> ts]

\* a < b on numbers: false when a is NaN
LessThan(a, b) == ~a.nan /\ a.v < b

\* part_005:82 with the comparison <=
isCacheValid_leq(entry, t) ==
    Truthy(entry.ts) /\ ~ToNumber(entry.ts).nan /\ t - ToNumber(entry.ts).v <= CacheMs

\* part_005:82  cacheTimestamp && (Date.now() - Number(cacheTimestamp) < 30 days)
isCacheValid(entry, t) ==
    LET n == ToNumber(entry.ts) IN
    Truthy(entry.ts) /\ LessThan([nan |-> n.nan, v |-> t - n.v], CacheMs)

\* part_005:84  cachedAccess === 'true' && isCacheValid
CacheGrants(entry, t) == entry.access = "true" /\ isCacheValid(entry, t)

\* part_005:91  HARDCODED_ALLOW_LIST.includes(email)
IsHardcoded(email) == email \in hardcoded

\* part_005:191-192, 218-219, 233-234, 245-246: both markers removed
RemoveMarkers(p) == IF storageOk THEN NoMarker ELSE p

\* part_005:196, 230 taken as false whatever the store holds
StillPending_never(p) == FALSE

\* part_005:196, 230  safeLocalStorageGet("auth_redirect_pending") === "true"
StillPending(p) == storageOk /\ p.local

(***************************************************************************)
(* checkAccess (part_005:72-147) works on the provider's state S: user,    *)
(* loading, cache, the suspended invocations, and the history.  An         *)
(* invocation runs to its first await when it is called, and from one      *)
(* await to the next when the awaited call answers.                        *)
(***************************************************************************)
S == [user |-> user, loading |-> loading, cache |-> cache, calls |-> calls,
      done |-> NoDone, runs |-> runs, outcome |-> outcome, fx |-> fx, initPc |-> initPc]

\* The suspended invocations are a bag: two invocations that wait at the same
\* place with the same history are not told apart.
Suspend(q, c) == q (+) SetToBag({c})
Resume(q, c) == q (-) SetToBag({c})

\* The invocation returns (or throws): the finally block of part_005:144-146
\* has run, the report of the invocation is kept, and an initializeAuth that
\* awaited it (part_005:220-221) goes on.
Return(s, c, granted) ==
    [s EXCEPT !.loading = FALSE,
              !.done = [who |-> c.who, src |-> c.src, granted |-> granted,
                        cacheHit |-> c.cacheHit, listed |-> c.listed, found |-> c.found,
                        dbError |-> c.dbError, remote |-> c.remote,
                        signOuts |-> c.signOuts, soFails |-> c.soFails,
                        first |-> s.outcome[c.who]],
              !.outcome[c.who] = IF @ = "none"
                                 THEN (IF granted THEN "granted" ELSE "denied") ELSE @,
              !.initPc = IF c.src = "redirect" /\ @ = "check" THEN "done" ELSE @]

\* A grant that writes no cache entry (src/context/AuthContext.tsx:80-81, 90-91)
Grant_noCache(s, c, write) == Return([s EXCEPT !.user = c.who], c, TRUE)

\* A grant that refreshes the cache entry on every path, the cache hit included
Grant_refresh(s, c, write) ==
    Return([s EXCEPT !.user = c.who,
                     !.cache = safeLocalStorageSet(@, EmailOf(c.who), clock)], c, TRUE)

\* part_005:86, 93, 108, 119  setUser(currentUser), then the cache write
Grant(s, c, write) ==
    LET email == EmailOf(c.who)
        s1 == [s EXCEPT !.user = c.who,
                        !.cache = IF write THEN safeLocalStorageSet(@, email, clock) ELSE @]
    IN  Return(s1, c, TRUE)

\* await signOut(auth) is reached: the invocation waits at `pc`
CallSignOut(s, c, pc) ==
    [s EXCEPT !.calls = Suspend(@, [c EXCEPT !.pc = pc, !.signOuts = @ + 1]),
              !.fx.signOut = Sat(@)]

\* What holds of the identity when checkAccess is called, for the history:
\* a readable cache entry that says 'true' and is less than 30 days old, and
\* membership of the hardcoded list.
CachedGrant(u) ==
    /\ EmailOf(u) # "" /\ storageOk
    /\ cache[EmailOf(u)].access = "true"
    /\ cache[EmailOf(u)].ts \notin {NoTs, BadTs, EmptyTs}
    /\ clock - cache[EmailOf(u)].ts < CacheMs

\* A readable entry that says 'true' and is 30 days old or older, or has no
\* timestamp, or one that is not a number
ExpiredGrant(u) ==
    /\ EmailOf(u) # "" /\ storageOk
    /\ cache[EmailOf(u)].access = "true"
    /\ ~CachedGrant(u)

Listed(u) == EmailOf(u) # "" /\ EmailOf(u) \in hardcoded

\* A new invocation; cacheHit, listed, found, dbError, remote (the remote calls
\* issued), signOuts (the calls of signOut) and soFails (those that were
\* rejected) are history.
NewCall(u, src) ==
    [who |-> u, src |-> src, pc |-> "start", cacheHit |-> CachedGrant(u), listed |-> Listed(u),
     found |-> FALSE, dbError |-> FALSE, remote |-> 0, signOuts |-> 0, soFails |-> 0]

\* part_005:72-104: from the call to the first await
checkAccess(s0, u, src) ==
    LET email == EmailOf(u)
        c == NewCall(u, src)
        s == [s0 EXCEPT !.runs[u] = Sat(@),
                        !.initPc = IF src = "redirect" THEN "check" ELSE @]
    IN  IF email = ""
        THEN CallSignOut(s, c, "signOut-outer")                         \* 77, 139-141
        ELSE LET entry == safeLocalStorageGet(s.cache, email) IN
             IF CacheGrants(entry, clock)
             THEN Grant(s, c, FALSE)                                    \* 84-89
             ELSE IF IsHardcoded(email)
             THEN Grant(s, c, TRUE)                                     \* 91-98
             ELSE [s EXCEPT !.calls =                                   \* 100-104
                      Suspend(@, [c EXCEPT !.pc = "getDoc", !.remote = 1])]

\* part_005:104-115: getDoc answered
AfterGetDoc(s, c, ok) ==
    LET rest == [s EXCEPT !.calls = Resume(@, c)]
    IN  IF ~ok
        THEN CallSignOut(rest, [c EXCEPT !.dbError = TRUE], "signOut-db")        \* 131-135
        ELSE IF EmailOf(c.who) \in whitelist.byId
        THEN Grant(rest, [c EXCEPT !.found = TRUE], TRUE)                        \* 106-110
        ELSE [rest EXCEPT !.calls = Suspend(@, [c EXCEPT !.pc = "getDocs", !.remote = 2])]

\* A gate that denies on an empty direct lookup whatever the query returns
AfterGetDocs_noQuery(s, c, ok) ==
    LET rest == [s EXCEPT !.calls = Resume(@, c)]
    IN  IF ~ok
        THEN CallSignOut(rest, [c EXCEPT !.dbError = TRUE], "signOut-db")
        ELSE CallSignOut(rest, c, "signOut-denied")

\* part_005:115-124: getDocs answered
AfterGetDocs(s, c, ok) ==
    LET rest == [s EXCEPT !.calls = Resume(@, c)]
    IN  IF ~ok
        THEN CallSignOut(rest, [c EXCEPT !.dbError = TRUE], "signOut-db")        \* 131-135
        ELSE IF EmailOf(c.who) \in whitelist.byField
        THEN Grant(rest, [c EXCEPT !.found = TRUE], TRUE)                        \* 117-121
        ELSE CallSignOut(rest, c, "signOut-denied")                              \* 123-124

\* part_005:124-129, 135-137, 141-146: signOut answered
AfterSignOut(s, c, ok) ==
    LET rest == [s EXCEPT !.calls = Resume(@, c)]
        failed == [c EXCEPT !.soFails = @ + 1]
    IN  IF ok
        THEN LET s1 == [rest EXCEPT !.user = Null, !.fx.toast = Sat(@)]
                 s2 == IF c.pc = "signOut-denied"
                       THEN [s1 EXCEPT !.cache = safeLocalStorageRemove(@, EmailOf(c.who))]
                       ELSE s1
             IN  Return(s2, c, FALSE)
        ELSE IF c.pc = "signOut-denied" THEN CallSignOut(rest, failed, "signOut-db")
        ELSE IF c.pc = "signOut-db" THEN CallSignOut(rest, failed, "signOut-outer")
        ELSE Return(rest, failed, FALSE)

\* The provider's state after S
Becomes(s) ==
    /\ user' = s.user
    /\ loading' = s.loading
    /\ cache' = s.cache
    /\ calls' = s.calls
    /\ done' = s.done
    /\ runs' = s.runs
    /\ outcome' = s.outcome
    /\ fx' = s.fx
    /\ initPc' = s.initPc

\* An auth state notification for the listener, when one is registered
Notify(q, u) == IF subscribed THEN Append(q, u) ELSE q

(***************************************************************************)
(* The awaited calls of a suspended checkAccess answer.                    *)
(***************************************************************************)
GetDocReply(c, ok) ==
    /\ BagIn(c, calls) /\ c.pc = "getDoc"
    /\ Becomes(AfterGetDoc(S, c, ok))
    /\ UNCHANGED <<pending, storageOk, hardcoded, whitelist, clock, currentUser, events,
                   redirectResult, isMobileSafari, subscribed, isActive, isRedirectPending,
                   timer, signIns, rlVars, siVars>>

GetDocsReply(c, ok) ==
    /\ BagIn(c, calls) /\ c.pc = "getDocs"
    /\ Becomes(AfterGetDocs(S, c, ok))
    /\ UNCHANGED <<pending, storageOk, hardcoded, whitelist, clock, currentUser, events,
                   redirectResult, isMobileSafari, subscribed, isActive, isRedirectPending,
                   timer, signIns, rlVars, siVars>>

\* signOut(auth) resolves (the session is gone and the listener is notified of
\* the change) or rejects
SignOutReply(c, ok) ==
    /\ BagIn(c, calls)
    /\ c.pc \in {"signOut-denied", "signOut-db", "signOut-outer"}
    /\ Becomes(AfterSignOut(S, c, ok))
    /\ currentUser' = IF ok THEN Null ELSE currentUser
    /\ events' = IF ok /\ currentUser # Null THEN Notify(events, Null) ELSE events
    /\ UNCHANGED <<pending, storageOk, hardcoded, whitelist, clock,
                   redirectResult, isMobileSafari, subscribed, isActive, isRedirectPending,
                   timer, signIns, rlVars, siVars>>

(***************************************************************************)
(* initializeAuth (part_005:153-249) and the listener (part_005:186-202).  *)
(***************************************************************************)
\* part_005:168-207: the start-up delay is over; up to await getRedirectResult
InitAfterDelay ==
    /\ initPc = "delay"
    /\ loading' = TRUE
    /\ isRedirectPending' = (storageOk /\ (pending.local \/ pending.session))
    /\ subscribed' = TRUE
    /\ events' = Append(events, currentUser)
    /\ initPc' = "redirect1"
    /\ UNCHANGED <<user, cache, pending, storageOk, hardcoded, whitelist, clock, currentUser,
                   redirectResult, isMobileSafari, isActive, timer, calls, signIns,
                   runs, outcome, fx, rlVars, siVars>>
    /\ done' = NoDone

\* part_005:207-248: getRedirectResult answered (the first call, or the retry)
RedirectReply(r) ==
    /\ initPc \in {"redirect1", "redirect2"}
    /\ r \in IF initPc = "redirect1" /\ isMobileSafari
             THEN {redirectResult, Null} ELSE {redirectResult}
    /\ IF r = "error"
       THEN /\ pending' = RemoveMarkers(pending)                        \* 243-247
            /\ loading' = FALSE
            /\ initPc' = "done"
            /\ done' = NoDone
            /\ UNCHANGED <<user, cache, calls, runs, outcome, fx, timer>>
       ELSE IF r # Null
       THEN /\ BagCardinality(calls) < MaxCalls
            /\ pending' = RemoveMarkers(pending)                        \* 216-221
            /\ Becomes(checkAccess(S, r, "redirect"))
            /\ UNCHANGED timer
       ELSE IF initPc = "redirect1" /\ isRedirectPending /\ isMobileSafari
       THEN /\ initPc' = "redirect2"                                    \* 210-214
            /\ done' = NoDone
            /\ UNCHANGED <<user, loading, cache, pending, calls, runs, outcome, fx, timer>>
       ELSE /\ timer' = (timer \/ isRedirectPending)                    \* 222-241
            /\ initPc' = "done"
            /\ done' = NoDone
            /\ UNCHANGED <<user, loading, cache, pending, calls, runs, outcome, fx>>
    /\ UNCHANGED <<storageOk, hardcoded, whitelist, clock, currentUser, events,
                   redirectResult, isMobileSafari, subscribed, isActive, isRedirectPending,
                   signIns, rlVars, siVars>>

\* A timeout whose callback does nothing
RedirectTimeout_silent ==
    /\ timer
    /\ timer' = FALSE
    /\ done' = NoDone
    /\ UNCHANGED <<user, loading, cache, pending, storageOk, hardcoded, whitelist, clock,
                   currentUser, events, redirectResult, isMobileSafari, subscribed, isActive,
                   initPc, isRedirectPending, calls, signIns, runs, outcome, fx, rlVars, siVars>>

\* part_005:229-240: the redirect timeout fires
RedirectTimeout ==
    /\ timer
    /\ timer' = FALSE
    /\ IF StillPending(pending)
       THEN /\ pending' = RemoveMarkers(pending)
            /\ IF currentUser = Null
               THEN loading' = FALSE /\ fx' = [fx EXCEPT !.toast = Sat(@)]
               ELSE UNCHANGED <<loading, fx>>
       ELSE UNCHANGED <<pending, loading, fx>>
    /\ UNCHANGED <<user, cache, storageOk, hardcoded, whitelist, clock, currentUser, events,
                   redirectResult, isMobileSafari, subscribed, isActive, initPc,
                   isRedirectPending, calls, signIns, runs, outcome, rlVars, siVars>>
    /\ done' = NoDone

\* part_005:186-202: the listener is called with the next notification
AuthStateChanged ==
    /\ subscribed /\ events # <<>>
    /\ events' = Tail(events)
    /\ LET cu == Head(events) IN
       IF ~isActive
       THEN /\ done' = NoDone
            /\ UNCHANGED <<user, loading, cache, pending, calls, runs, outcome, fx, initPc>>
       ELSE IF cu # Null
       THEN /\ BagCardinality(calls) < MaxCalls
            /\ pending' = RemoveMarkers(pending)
            /\ Becomes(checkAccess(S, cu, "listener"))
       ELSE IF ~StillPending(pending)
       THEN /\ user' = Null
            /\ loading' = FALSE
            /\ done' = NoDone
            /\ UNCHANGED <<cache, pending, calls, runs, outcome, fx, initPc>>
       ELSE /\ done' = NoDone
            /\ UNCHANGED <<user, loading, cache, pending, calls, runs, outcome, fx, initPc>>
    /\ UNCHANGED <<storageOk, hardcoded, whitelist, clock, currentUser,
                   redirectResult, isMobileSafari, subscribed, isActive, isRedirectPending,
                   timer, signIns, rlVars, siVars>>

\* A sign-in completes at the provider (a popup that succeeded, another tab):
\* a new sign-in attempt of that identity begins.
ProviderSignIn(u) ==
    /\ signIns < MaxSignIns
    /\ u # currentUser
    /\ signIns' = signIns + 1
    /\ currentUser' = u
    /\ events' = Notify(events, u)
    /\ runs' = [runs EXCEPT ![u] = 0]
    /\ outcome' = [outcome EXCEPT ![u] = "none"]
    /\ fx' = NoFx
    /\ UNCHANGED <<user, loading, cache, pending, storageOk, hardcoded, whitelist, clock,
                   redirectResult, isMobileSafari, subscribed, isActive, initPc,
                   isRedirectPending, timer, calls, rlVars, siVars>>
    /\ done' = NoDone

(***************************************************************************)
(* logout (part_005:346-355), called by the Logout button of the page      *)
(* (page.tsx:118), which is shown while a user is set.  The call waits at  *)
(* signOut among the suspended calls; when it returns, `done` holds its    *)
(* report: whether signOut resolved, and the toast shown.                  *)
(***************************************************************************)
\* part_005:347-348: up to await signOut(auth)
logout ==
    /\ user # Null
    /\ BagCardinality(calls) < MaxCalls
    /\ Becomes(CallSignOut(S, NewCall(user, "logout"), "signOut-logout"))
    /\ UNCHANGED <<pending, storageOk, hardcoded, whitelist, clock, currentUser, events,
                   redirectResult, isMobileSafari, subscribed, isActive, isRedirectPending,
                   timer, signIns, rlVars, siVars>>

LogoutReport(ok, toast) == [who |-> Null, src |-> "logout", ok |-> ok, toast |-> toast]

\* A logout that clears the user whether or not signOut resolved:
\* setUser(null) in a finally block
AfterLogout_always(s, c, ok) ==
    LET rest == [s EXCEPT !.calls = Resume(@, c), !.fx.toast = Sat(@), !.user = Null]
    IN  IF ok
        THEN [rest EXCEPT !.done = LogoutReport(TRUE, "Logged out successfully")]
        ELSE [rest EXCEPT !.done = LogoutReport(FALSE, "Logout failed")]

\* A logout that forgets the grant: the access keys of the user are removed
\* after setUser(null)
AfterLogout_forget(s, c, ok) ==
    LET rest == [s EXCEPT !.calls = Resume(@, c), !.fx.toast = Sat(@)]
    IN  IF ok
        THEN [rest EXCEPT !.user = Null,
                          !.cache = safeLocalStorageRemove(@, EmailOf(c.who)),
                          !.done = LogoutReport(TRUE, "Logged out successfully")]
        ELSE [rest EXCEPT !.done = LogoutReport(FALSE, "Logout failed")]

\* part_005:348-354: signOut answered
AfterLogout(s, c, ok) ==
    LET rest == [s EXCEPT !.calls = Resume(@, c), !.fx.toast = Sat(@)]
    IN  IF ok
        THEN [rest EXCEPT !.user = Null,                                         \* 349-350
                          !.done = LogoutReport(TRUE, "Logged out successfully")]
        ELSE [rest EXCEPT !.done = LogoutReport(FALSE, "Logout failed")]         \* 351-353

\* signOut(auth) of a logout resolves (the session is gone and the listener is
\* notified of the change) or rejects
LogoutReply(c, ok) ==
    /\ BagIn(c, calls)
    /\ c.pc = "signOut-logout"
    /\ Becomes(AfterLogout(S, c, ok))
    /\ currentUser' = IF ok THEN Null ELSE currentUser
    /\ events' = IF ok /\ currentUser # Null THEN Notify(events, Null) ELSE events
    /\ UNCHANGED <<pending, storageOk, hardcoded, whitelist, clock,
                   redirectResult, isMobileSafari, subscribed, isActive, isRedirectPending,
                   timer, signIns, rlVars, siVars>>

\* An administrator deletes the records of the users_whitelist collection
WhitelistRemoved ==
    /\ whitelist # [byId |-> {}, byField |-> {}]
    /\ whitelist' = [byId |-> {}, byField |-> {}]
    /\ done' = NoDone
    /\ UNCHANGED <<user, loading, cache, pending, storageOk, hardcoded, clock, currentUser,
                   events, redirectResult, isMobileSafari, subscribed, isActive, initPc,
                   isRedirectPending, timer, calls, signIns, runs, outcome, fx, rlVars, siVars>>

(***************************************************************************)
(* AddMealForm (ThemeToggle.tsx:51-461): the photo, the text fields, the   *)
(* AI analysis of the photo and the upload of the meal.  A text field is   *)
(* "" when empty, " " when it holds white space only, "typed" when the     *)
(* user wrote it and "ai" when the analysis filled it in.                  *)
(***************************************************************************)
MonthlyLimit == 100     \* ThemeToggle.tsx:184  monthlyUploads >= 100
\* Bounds of the exploration
MaxSubmits == 2         \* handleSubmit invocations suspended at the same time
MaxSaved == 1           \* meals saved during a run

\* The photos a user picks: the length of the base64 data and file.type
Images == { [len |-> 1000, mimeType |-> "image/jpeg"],
            [len |-> MaxBase64Len + 1, mimeType |-> ""] }

\* No file, no preview, no call: null
NoImage == [len |-> 0, mimeType |-> "null"]

FieldNames == {"title", "description", "ingredients", "recipe", "healthScore"}
\* ThemeToggle.tsx:56-60
NoFields == [title |-> "", description |-> "", ingredients |-> "", recipe |-> "",
             healthScore |-> "5"]
\* ThemeToggle.tsx:224-228
ClearedFields == [n \in FieldNames |-> ""]

\* The documents a JSON answer of the AI endpoint denotes: isFood and the
\* fields that are present and truthy
NoDoc == [isFood |-> FALSE, has |-> {}]
AiDocs == { NoDoc, [isFood |-> TRUE, has |-> FieldNames], [isFood |-> TRUE, has |-> {"title"}] }
\* The documents an answer of the AI endpoint can denote
DocsOf(reply) ==
    IF "text" \in DOMAIN reply /\ StripFences(reply.text) = <<"json">> THEN AiDocs ELSE {NoDoc}

NoToast == [kind |-> "none", text |-> "", detail |-> ""]
ToastError(text, detail) == [kind |-> "error", text |-> text, detail |-> detail]
ToastSuccess(text) == [kind |-> "success", text |-> text, detail |-> ""]

\* What the handleSubmit invocation that returned last met and did
NoSubmit == [outcome |-> "none", countFailed |-> FALSE, count |-> 0, uploaded |-> 0,
             written |-> 0]

\* ThemeToggle.tsx:52-63: the form as it is mounted, nothing suspended
NoForm == [imageFile |-> NoImage, imagePreview |-> NoImage, reading |-> {},
           fields |-> NoFields, isAnalyzing |-> FALSE, isSubmitting |-> FALSE,
           aiResult |-> FALSE, toast |-> NoToast, analysis |-> NoImage,
           submits |-> EmptyBag, meals |-> 0, saved |-> 0, last |-> NoSubmit]

\* String.prototype.trim on a field
Trim(text) == IF text = " " THEN "" ELSE text

OnlyForm == UNCHANGED <<env, si, reloads, login, rlVars, authVars>>

\* The user acts on the form when no file is being read and no analysis is
\* under way, and edits or analyses when no submission is under way either.
Settled == form.reading = {} /\ form.analysis = NoImage
AtRest == Settled /\ form.submits = EmptyBag

\* ThemeToggle.tsx:115-125 handleImageChange: the file is set and a FileReader starts
handleImageChange(img) ==
    /\ AtRest
    /\ form' = [form EXCEPT !.imageFile = img, !.reading = @ \cup {img}]
    /\ OnlyForm

\* ThemeToggle.tsx:120-122 reader.onloadend
onloadend(img) ==
    /\ img \in form.reading
    /\ form' = [form EXCEPT !.imagePreview = img, !.reading = @ \ {img}]
    /\ OnlyForm

\* ThemeToggle.tsx:335: the user edits the title
onChange(name, text) ==
    /\ AtRest
    /\ form.fields[name] # text
    /\ form' = [form EXCEPT !.fields[name] = text]
    /\ OnlyForm

\* ThemeToggle.tsx:127-134 (button: 291-292): triggerAnalyze up to the call of
\* analyzeMeal.  Without a file or a preview it returns at once.
triggerAnalyze ==
    /\ AtRest
    /\ ~form.isAnalyzing
    /\ form.imageFile # NoImage /\ form.imagePreview # NoImage
    /\ form' = [form EXCEPT !.isAnalyzing = TRUE, !.aiResult = FALSE,
                            !.analysis = [len |-> form.imagePreview.len,
                                          mimeType |-> form.imageFile.mimeType]]
    /\ OnlyForm

\* ThemeToggle.tsx:139-147: the fields an analysis fills in
Fill(fields, has) == [n \in FieldNames |-> IF n \in has THEN "ai" ELSE fields[n]]

\* ThemeToggle.tsx:134-158 without the finally block
Analyzed_noFinally(f, ans, doc) ==
    IF ans.result # "json"
    THEN [f EXCEPT !.analysis = NoImage, !.toast = ToastError(ans.result, ans.msg)]
    ELSE IF ~doc.isFood
    THEN [f EXCEPT !.analysis = NoImage, !.isAnalyzing = FALSE,
                   !.toast = ToastError("AI denkt dat dit geen maaltijd is.", "")]
    ELSE [f EXCEPT !.analysis = NoImage, !.isAnalyzing = FALSE, !.aiResult = TRUE,
                   !.fields = Fill(f.fields, doc.has),
                   !.toast = ToastSuccess("Analyse voltooid en velden ingevuld!")]

\* ThemeToggle.tsx:134-158: triggerAnalyze from the answer of analyzeMeal on
Analyzed(f, ans, doc) ==
    LET g == [f EXCEPT !.analysis = NoImage, !.isAnalyzing = FALSE] IN
    IF ans.result # "json"
    THEN [g EXCEPT !.toast = ToastError(ans.result, ans.msg)]
    ELSE IF ~doc.isFood
    THEN [g EXCEPT !.toast = ToastError("AI denkt dat dit geen maaltijd is.", "")]
    ELSE [g EXCEPT !.aiResult = TRUE, !.fields = Fill(f.fields, doc.has),
                   !.toast = ToastSuccess("Analyse voltooid en velden ingevuld!")]

\* The server action runs for the suspended triggerAnalyze and its answer arrives
AnalyzeAnswered(h, reply, doc) ==
    /\ form.analysis # NoImage
    /\ analyzeMealCall(IpA, h, form.analysis, reply)
    /\ form' = Analyzed(form, lastReq', doc)

\* The call of the server action fails before it reaches the server
AnalyzeUnreachable ==
    /\ form.analysis # NoImage
    /\ form' = Analyzed(form, [result |-> "Failed to fetch", msg |-> ""], NoDoc)
    /\ OnlyForm

\* A suspended handleSubmit: where it stands, the fields and the file of the
\* render it was started from, and what it has met
SubmitCall(pc, fields, file, failed, count, uploaded) ==
    [pc |-> pc, fields |-> fields, file |-> file, countFailed |-> failed, count |-> count,
     uploaded |-> uploaded]

Returned(call, how, written) ==
    [outcome |-> how, countFailed |-> call.countFailed, count |-> call.count,
     uploaded |-> call.uploaded, written |-> written]

Replace(bag, old, new) == (bag (-) SetToBag({old})) (+) SetToBag({new})

\* ThemeToggle.tsx:161-181 (button: 443): handleSubmit up to the count query
handleSubmit ==
    /\ Settled
    /\ ~form.isSubmitting /\ form.imageFile # NoImage
    /\ BagCardinality(form.submits) < MaxSubmits
    /\ form.saved < MaxSaved
    /\ form' =
          IF user = Null
          THEN [form EXCEPT !.toast = ToastError("Selecteer eerst een foto", ""),
                            !.last = [NoSubmit EXCEPT !.outcome = "no user"]]
          ELSE [form EXCEPT !.submits =
                   @ (+) SetToBag({SubmitCall("count", form.fields, form.imageFile,
                                              FALSE, 0, 0)})]
    /\ OnlyForm

\* ThemeToggle.tsx:181-204: the count query answered with snapshot.size, or
\* failed, and the handler goes on to the validation of the title
CountAnswered(call, ok) ==
    /\ call \in BagToSet(form.submits) /\ call.pc = "count"
    /\ LET met == [call EXCEPT !.countFailed = ~ok, !.count = IF ok THEN form.meals ELSE 0]
           rest == form.submits (-) SetToBag({call})
       IN  form' =
             IF ok /\ form.meals >= MonthlyLimit
             THEN [form EXCEPT !.submits = rest, !.last = Returned(met, "limit", 0),
                               !.toast = ToastError("Opslaglimiet bereikt!", "")]
             ELSE IF Trim(call.fields.title) = ""
             THEN [form EXCEPT !.submits = rest, !.last = Returned(met, "title", 0),
                               !.toast = ToastError("Titel is verplicht", "")]
             ELSE [form EXCEPT !.submits = rest (+) SetToBag({[met EXCEPT !.pc = "compress"]}),
                               !.isSubmitting = TRUE]
    /\ OnlyForm

\* ThemeToggle.tsx:206-240: compressImage, uploadBytes, getDownloadURL and addDoc
\* answered or failed
SubmitAnswered(call, ok) ==
    /\ call \in BagToSet(form.submits) /\ call.pc \in {"compress", "upload", "url", "addDoc"}
    /\ LET rest == form.submits (-) SetToBag({call}) IN
       form' =
         IF ~ok
         THEN [form EXCEPT !.submits = rest, !.last = Returned(call, "failed", 0),
                           !.toast = ToastError("Opslaan mislukt", ""),
                           !.isSubmitting = FALSE]
         ELSE IF call.pc = "compress"
         THEN [form EXCEPT !.submits = Replace(@, call, [call EXCEPT !.pc = "upload"])]
         ELSE IF call.pc = "upload"
         THEN [form EXCEPT !.submits = Replace(@, call, [call EXCEPT !.pc = "url",
                                                                       !.uploaded = 1])]
         ELSE IF call.pc = "url"
         THEN [form EXCEPT !.submits = Replace(@, call, [call EXCEPT !.pc = "addDoc"])]
         ELSE [form EXCEPT !.submits = rest, !.last = Returned(call, "saved", 1),
                           !.meals = @ + 1, !.saved = @ + 1,
                           !.toast = ToastSuccess("Maaltijd opgeslagen!"),
                           !.imageFile = NoImage, !.imagePreview = NoImage,
                           !.fields = ClearedFields, !.aiResult = FALSE,
                           !.isSubmitting = FALSE]
    /\ OnlyForm

(***************************************************************************)
(* Login (Login.tsx:6-16), the form of the email-link variant, and         *)
(* sendMagicLink of the provider it calls.  The provider of that variant   *)
(* is not among the sources: sendMagicLink is what the specification says  *)
(* of it, a whitelist check before the link is sent, with the errors of    *)
(* the store and of the mail service caught and shown where they occur.    *)
(***************************************************************************)
\* What a visitor types into the address field
Addresses == {"", AliceEmail}

\* Login.tsx:8-9, nothing sent yet.  `to` is the argument of the suspended
\* sendMagicLink, `links` the addresses a link was sent to, `last` what the
\* last submission came to.
NoLogin == [email |-> "", sent |-> FALSE, pc |-> "idle", to |-> "", links |-> {},
            last |-> "none"]

OnlyLogin == UNCHANGED <<env, si, reloads, form, rlVars, authVars>>

\* Login.tsx:43 onChange of the address field, shown while sent is false
setEmail(a) ==
    /\ ~login.sent /\ login.pc = "idle"
    /\ login.email # a
    /\ login' = [login EXCEPT !.email = a]
    /\ OnlyLogin

\* Login.tsx:68 "Opnieuw proberen"
setSentFalse ==
    /\ login.sent
    /\ login' = [login EXCEPT !.sent = FALSE]
    /\ OnlyLogin

\* Login.tsx:11-14 handleSubmit up to the await (button: 48-49)
LoginSubmit ==
    /\ ~login.sent /\ login.pc = "idle" /\ ~loading
    /\ login' = IF login.email = ""
                THEN [login EXCEPT !.last = "empty"]
                ELSE [login EXCEPT !.pc = "lookup", !.to = login.email]
    /\ OnlyLogin

\* Login.tsx:14-15: sendMagicLink has resolved, and handleSubmit goes on
Resolved(l, how) ==
    [l EXCEPT !.pc = "idle", !.last = how, !.sent = TRUE,
              !.links = IF how = "sent" THEN @ \cup {l.to} ELSE @]

\* The whitelist check of checkAccess on an address
Whitelisted(email) == email \in hardcoded \cup whitelist.byId \cup whitelist.byField

\* sendMagicLink: the whitelist check answered, or failed
LinkCheckAnswered(ok) ==
    /\ login.pc = "lookup"
    /\ login' = IF ~ok THEN Resolved(login, "check failed")
                ELSE IF ~Whitelisted(login.to) THEN Resolved(login, "declined")
                ELSE [login EXCEPT !.pc = "send"]
    /\ OnlyLogin

\* sendMagicLink: the mail service answered, or failed
LinkSendAnswered(ok) ==
    /\ login.pc = "send"
    /\ login' = Resolved(login, IF ok THEN "sent" ELSE "send failed")
    /\ OnlyLogin

(***************************************************************************)
(* signInWithGoogle (part_005:262-344).  navigator.userAgent is kept as    *)
(* the set of product tokens the regular expressions of part_005:268-271   *)
(* look for.                                                               *)
(***************************************************************************)
MaxReloads == 1     \* page loads caused by signInWithRedirect
MaxClicks == 1      \* signInWithGoogle calls on one page load

UaDesktop == {"Windows", "Chrome", "Safari"}
UaIphoneSafari == {"iPhone", "Mobile", "Safari"}
UaIphoneChrome == {"iPhone", "CriOS", "Mobile", "Safari"}
UaAndroid == {"Android", "Chrome", "Mobile", "Safari"}
UserAgentsOfDevices == {UaDesktop, UaIphoneSafari, UaIphoneChrome, UaAndroid}

\* part_005:268-270 (and 161-163)
IsMobileSafari(ua) ==
    /\ ua \cap {"iPhone", "iPad", "iPod"} # {}
    /\ "Safari" \in ua
    /\ ua \cap {"Chrome", "CriOS", "FxiOS"} = {}

\* part_005:271
IsAndroid(ua) == "Android" \in ua

\* part_005:272
IsMobile(ua) == IsMobileSafari(ua) \/ IsAndroid(ua)

PopupBlocked == "auth/popup-blocked"
PopupClosed == "auth/popup-closed-by-user"
PopupCancelled == "auth/cancelled-popup-request"
NetworkFailed == "auth/network-request-failed"
PopupErrors == {PopupBlocked, PopupClosed, PopupCancelled, NetworkFailed}

\* Benign errors without the blocked popup (as in AuthContext.tsx:146)
IsBenignPopupError_notBlocked(code) == code \in {PopupClosed, PopupCancelled}

\* A fallback on every popup error (as in part_004:186-191)
IsBenignPopupError_any(code) == TRUE

\* part_005:326-328
IsBenignPopupError(code) == code \in {PopupBlocked, PopupClosed, PopupCancelled}

\* No signInWithGoogle call has run on this page.  clicks counts the calls on
\* this page; popups, redirects and toasts count what the last call did; popErr is the error of its popup; marked
\* tells whether the marker was in a store when it called signInWithRedirect.
NoSignIn == [pc |-> "idle", clicks |-> 0, popups |-> 0, redirects |-> 0, toasts |-> 0,
             popErr |-> "", marked |-> FALSE]

MarkerStored(p) == storageOk /\ (p.local \/ p.session)

\* part_005:337-343: the outer catch
SignInFailed(c) == [c EXCEPT !.pc = "idle", !.toasts = @ + 1]

\* part_005:309, 331: signInWithRedirect is called
CallRedirect(c, p, pc) ==
    [c EXCEPT !.pc = pc, !.redirects = @ + 1, !.marked = MarkerStored(p)]

\* part_005:262-288: the button is pressed (page.tsx:72-80 shows it when
\* loading is false and there is no user); up to await setPersistence.  A
\* press comes after the notifications the provider has already queued.
SignInClick ==
    /\ initPc # "off" /\ si.pc = "idle" /\ ~loading /\ user = Null
    /\ events = <<>>
    /\ si.clicks < MaxClicks
    /\ loading' = TRUE
    /\ si' = [NoSignIn EXCEPT !.pc = "persist", !.clicks = si.clicks + 1]
    /\ done' = NoDone
    /\ UNCHANGED <<user, cache, pending, storageOk, hardcoded, whitelist, clock, currentUser,
                   events, redirectResult, isMobileSafari, subscribed, isActive, initPc,
                   isRedirectPending, timer, calls, signIns, runs, outcome, fx,
                   env, reloads, form, login, rlVars>>

\* part_005:278-291: setPersistence answered
PersistenceReply(ok) ==
    /\ si.pc \in {"persist", "persist2"}
    /\ IF ok
       THEN si' = [si EXCEPT !.pc = "wait1"] /\ UNCHANGED loading
       ELSE IF si.pc = "persist" /\ IsMobileSafari(env.ua)
       THEN si' = [si EXCEPT !.pc = "persist2"] /\ UNCHANGED loading        \* 282-285
       ELSE si' = SignInFailed(si) /\ loading' = FALSE
    /\ done' = NoDone
    /\ UNCHANGED <<user, cache, pending, storageOk, hardcoded, whitelist, clock, currentUser,
                   events, redirectResult, isMobileSafari, subscribed, isActive, initPc,
                   isRedirectPending, timer, calls, signIns, runs, outcome, fx,
                   env, reloads, form, login, rlVars>>

\* part_005:291-319: a wait(300) is over.  After the first one the mobile
\* path writes the marker to both stores and waits again, the desktop path
\* opens the popup; after the second one signInWithRedirect is called.
SignInWaitOver ==
    /\ si.pc \in {"wait1", "wait2"}
    /\ IF si.pc = "wait2"
       THEN si' = CallRedirect(si, pending, "redirect") /\ UNCHANGED pending       \* 309
       ELSE IF IsMobile(env.ua)
       THEN /\ pending' = IF storageOk THEN [local |-> TRUE, session |-> TRUE]     \* 298-304
                          ELSE pending
            /\ si' = [si EXCEPT !.pc = "wait2"]
       ELSE si' = [si EXCEPT !.pc = "popup", !.popups = @ + 1] /\ UNCHANGED pending \* 319
    /\ done' = NoDone
    /\ UNCHANGED <<user, loading, cache, storageOk, hardcoded, whitelist, clock, currentUser,
                   events, redirectResult, isMobileSafari, subscribed, isActive, initPc,
                   isRedirectPending, timer, calls, signIns, runs, outcome, fx,
                   env, reloads, form, login, rlVars>>

\* part_005:319-336: signInWithPopup answered, with a user or with an error
PopupReply(r) ==
    /\ si.pc = "popup"
    /\ IF r \in Users
       THEN /\ si' = [si EXCEPT !.pc = "idle"]                                     \* 320-321
            /\ currentUser' = r
            /\ events' = Notify(events, r)
            /\ runs' = [runs EXCEPT ![r] = 0]
            /\ outcome' = [outcome EXCEPT ![r] = "none"]
            /\ fx' = NoFx
            /\ UNCHANGED <<loading, pending>>
       ELSE /\ IF IsBenignPopupError(r)
               THEN /\ pending' = IF storageOk THEN [pending EXCEPT !.local = TRUE] \* 330
                                  ELSE pending
                    /\ si' = CallRedirect([si EXCEPT !.popErr = r], pending', "redirect") \* 331
                    /\ UNCHANGED loading
               ELSE /\ si' = SignInFailed([si EXCEPT !.popErr = r])                \* 335-342
                    /\ loading' = FALSE
                    /\ UNCHANGED pending
            /\ UNCHANGED <<currentUser, events, runs, outcome, fx>>
    /\ done' = NoDone
    /\ UNCHANGED <<user, cache, storageOk, hardcoded, whitelist, clock,
                   redirectResult, isMobileSafari, subscribed, isActive, initPc,
                   isRedirectPending, timer, calls, signIns, env, reloads, form, login, rlVars>>

\* part_005:309-313, 331-332, 337-343: signInWithRedirect answered; when it
\* resolved the browser is about to leave the page
RedirectCallReply(ok) ==
    /\ si.pc = "redirect"
    /\ IF ok
       THEN si' = [si EXCEPT !.pc = "leaving"] /\ UNCHANGED loading
       ELSE si' = SignInFailed(si) /\ loading' = FALSE
    /\ done' = NoDone
    /\ UNCHANGED <<user, cache, pending, storageOk, hardcoded, whitelist, clock, currentUser,
                   events, redirectResult, isMobileSafari, subscribed, isActive, initPc,
                   isRedirectPending, timer, calls, signIns, runs, outcome, fx,
                   env, reloads, form, login, rlVars>>

\* The browser comes back from the provider: the page is loaded anew
\* (part_005:48-50, 149-168), the stores are what they were, and the provider
\* has signed somebody in, or nobody.
Navigate ==
    /\ si.pc = "leaving" /\ reloads < MaxReloads
    /\ reloads' = reloads + 1
    /\ si' = NoSignIn
    /\ user' = Null /\ loading' = TRUE
    /\ events' = <<>> /\ subscribed' = FALSE /\ isActive' = TRUE
    /\ initPc' = "delay" /\ isRedirectPending' = FALSE /\ timer' = FALSE
    /\ calls' = EmptyBag /\ done' = NoDone
    /\ runs' = [u \in Users |-> 0] /\ outcome' = [u \in Users |-> "none"] /\ fx' = NoFx
    /\ currentUser' \in {Null, Alice}
    /\ redirectResult' \in {Null, "error", currentUser'}
    /\ form' = NoForm /\ login' = NoLogin
    /\ UNCHANGED <<cache, pending, storageOk, hardcoded, whitelist, clock, isMobileSafari,
                   signIns, env, rlVars>>

\* No browser session: the state of these variables while only the servers run
NoBrowser ==
    /\ user = Null /\ loading = TRUE
    /\ cache = [e \in Emails |-> NoEntry]
    /\ pending = NoMarker
    /\ storageOk = TRUE /\ hardcoded = {} /\ whitelist = [byId |-> {}, byField |-> {}]
    /\ clock = 0 /\ currentUser = Null /\ events = <<>> /\ redirectResult = Null
    /\ isMobileSafari = FALSE /\ subscribed = FALSE /\ isActive = TRUE
    /\ initPc = "off" /\ isRedirectPending = FALSE /\ timer = FALSE
    /\ calls = EmptyBag /\ signIns = 0 /\ done = NoDone
    /\ runs = [u \in Users |-> 0] /\ outcome = [u \in Users |-> "none"] /\ fx = NoFx
    /\ env = [ua |-> UaDesktop, standalone |-> FALSE] /\ si = NoSignIn /\ reloads = 0 /\ form = NoForm /\ login = NoLogin

\* No server traffic: the state of the limiter variables while the browser runs
NoServer ==
    /\ now = 0 /\ rateLimit = <<>> /\ others = NoOthers /\ analysisRateLimit = <<>>
    /\ apiKey = TRUE /\ clients = {} /\ lastReq = [svc |-> "none"]
    /\ win = NoWindows
    /\ analyses = EmptyBag

\* The page has just loaded and the effect of part_005:149-257 has run up to
\* the start-up delay.  What the browser and the stores hold was left by
\* earlier page loads: a cached grant (fresh, or 30 days old), a redirect
\* marker, a persisted session, the outcome of a redirect sign-in.
InitAuth ==
    /\ NoServer
    /\ user = Null /\ loading = TRUE
    /\ storageOk \in BOOLEAN
    /\ clock = CacheMs
    /\ cache \in [Emails -> IF storageOk
                            THEN {NoEntry, [access |-> "true", ts |-> 1], [access |-> "true", ts |-> 0]}
                            ELSE {NoEntry}]
    /\ pending \in IF storageOk THEN {NoMarker, [local |-> TRUE, session |-> TRUE]} ELSE {NoMarker}
    /\ hardcoded \in {{}, {AliceEmail}}
    /\ whitelist \in IF hardcoded = {}
                     THEN [byId : SUBSET Emails, byField : SUBSET Emails]
                     ELSE {[byId |-> {}, byField |-> {}]}
    /\ currentUser \in Users \cup {Null}
    /\ redirectResult \in {Null, "error", currentUser}
    /\ isMobileSafari \in IF pending.local THEN BOOLEAN ELSE {FALSE}
    /\ events = <<>> /\ subscribed = FALSE /\ isActive = TRUE
    /\ initPc = "delay" /\ isRedirectPending = FALSE /\ timer = FALSE
    /\ calls = EmptyBag /\ signIns = 0 /\ done = NoDone
    /\ runs = [u \in Users |-> 0] /\ outcome = [u \in Users |-> "none"] /\ fx = NoFx
    /\ env = [ua |-> IF isMobileSafari THEN UaIphoneSafari ELSE UaDesktop, standalone |-> FALSE]
    /\ si = NoSignIn /\ reloads = 0 /\ form = NoForm /\ login = NoLogin

NextAuth ==
    \/ InitAfterDelay
    \/ \E r \in Users \cup {Null, "error"} : RedirectReply(r)
    \/ RedirectTimeout
    \/ AuthStateChanged
    \/ \E c \in BagToSet(calls) : \E ok \in BOOLEAN : GetDocReply(c, ok)
    \/ \E c \in BagToSet(calls) : \E ok \in BOOLEAN : GetDocsReply(c, ok)
    \/ \E c \in BagToSet(calls) : \E ok \in BOOLEAN : SignOutReply(c, ok)
    \/ \E u \in Users : ProviderSignIn(u)

SpecAuth == InitAuth /\ [][NextAuth]_vars

\* part_005:252-255: the cleanup of the effect, when the provider is torn down.
\* unsubscribe is the function onAuthStateChanged returned, if line 186 has
\* run, and the empty function of line 150 before.
Cleanup ==
    /\ isActive
    /\ isActive' = FALSE
    /\ subscribed' = FALSE
    /\ events' = <<>>
    /\ done' = NoDone
    /\ UNCHANGED <<user, loading, cache, pending, storageOk, hardcoded, whitelist, clock,
                   currentUser, redirectResult, isMobileSafari, initPc, isRedirectPending,
                   timer, calls, signIns, runs, outcome, fx, rlVars, siVars>>

\* part_005:252-255, then 149-158 and 250: the effect is cleaned up and runs
\* again while initializeAuth waits at line 169.  The cleanup clears the
\* isActive of the first run and calls the empty unsubscribe of line 150.
\* The second run has an isActive of its own, and its initializeAuth returns
\* at line 156, since isInitializing.current is still true: the initializeAuth
\* that goes on is the first one, whose isActive is false.
Remount ==
    /\ initPc = "delay"
    /\ isActive
    /\ isActive' = FALSE
    /\ subscribed' = FALSE
    /\ events' = <<>>
    /\ done' = NoDone
    /\ UNCHANGED <<user, loading, cache, pending, storageOk, hardcoded, whitelist, clock,
                   currentUser, redirectResult, isMobileSafari, initPc, isRedirectPending,
                   timer, calls, signIns, runs, outcome, fx, rlVars, siVars>>

NextTeardown ==
    \/ NextAuth
    \/ Cleanup

SpecTeardown == InitAuth /\ [][NextTeardown]_vars

\* The gate before the cache entries a browser store can hold for an email:
\* none, 'true' with a timestamp one second inside the 30 days, exactly 30 days
\* old, ahead of the clock, missing, empty or not a number, and a timestamp
\* with no value beside it.
CacheEntries ==
    {NoEntry, [access |-> "", ts |-> 1]} \cup
    [access : {"true"}, ts : {0, 1, CacheMs + 1, NoTs, BadTs, EmptyTs}]

\* The page is opened directly: no redirect is pending and getRedirectResult
\* has nothing to deliver.
InitCache ==
    /\ NoServer
    /\ user = Null /\ loading = TRUE
    /\ storageOk = TRUE
    /\ clock = CacheMs
    /\ cache \in [Emails -> CacheEntries]
    /\ pending = NoMarker
    /\ hardcoded \in {{}, {AliceEmail}}
    /\ whitelist \in IF hardcoded = {}
                     THEN [byId : SUBSET Emails, byField : SUBSET Emails]
                     ELSE {[byId |-> {}, byField |-> {}]}
    /\ currentUser = Alice
    /\ redirectResult = Null
    /\ isMobileSafari = FALSE
    /\ events = <<>> /\ subscribed = FALSE /\ isActive = TRUE
    /\ initPc = "delay" /\ isRedirectPending = FALSE /\ timer = FALSE
    /\ calls = EmptyBag /\ signIns = 0 /\ done = NoDone
    /\ runs = [u \in Users |-> 0] /\ outcome = [u \in Users |-> "none"] /\ fx = NoFx
    /\ env = [ua |-> UaDesktop, standalone |-> FALSE]
    /\ si = NoSignIn /\ reloads = 0 /\ form = NoForm /\ login = NoLogin

\* Seconds the browser clock advances during a run
MaxTicks == 1

\* Date.now() of the browser moves on
ClockTick ==
    /\ clock < CacheMs + MaxTicks
    /\ clock' = clock + 1
    /\ done' = NoDone
    /\ UNCHANGED <<user, loading, cache, pending, storageOk, hardcoded, whitelist,
                   currentUser, events, redirectResult, isMobileSafari, subscribed, isActive,
                   initPc, isRedirectPending, timer, calls, signIns, runs, outcome, fx,
                   rlVars, siVars>>

NextCache ==
    \/ InitAfterDelay
    \/ \E r \in Users \cup {Null, "error"} : RedirectReply(r)
    \/ AuthStateChanged
    \/ \E c \in BagToSet(calls) : \E ok \in BOOLEAN : GetDocReply(c, ok)
    \/ \E c \in BagToSet(calls) : \E ok \in BOOLEAN : GetDocsReply(c, ok)
    \/ \E c \in BagToSet(calls) : \E ok \in BOOLEAN : SignOutReply(c, ok)
    \/ \E u \in Users : ProviderSignIn(u)
    \/ ClockTick

SpecCache == InitCache /\ [][NextCache]_vars

\* The page opened directly by Alice, who holds a session or none, in a
\* browser that has no cached grant; the effect may run twice.
InitRemount ==
    /\ NoServer
    /\ user = Null /\ loading = TRUE
    /\ storageOk = TRUE
    /\ clock = CacheMs
    /\ cache = [e \in Emails |-> NoEntry]
    /\ pending = NoMarker
    /\ hardcoded = {}
    /\ whitelist \in [byId : SUBSET Emails, byField : {{}}]
    /\ currentUser \in {Alice, Null}
    /\ redirectResult = Null
    /\ isMobileSafari = FALSE
    /\ events = <<>> /\ subscribed = FALSE /\ isActive = TRUE
    /\ initPc = "delay" /\ isRedirectPending = FALSE /\ timer = FALSE
    /\ calls = EmptyBag /\ signIns = 0 /\ done = NoDone
    /\ runs = [u \in Users |-> 0] /\ outcome = [u \in Users |-> "none"] /\ fx = NoFx
    /\ env = [ua |-> UaDesktop, standalone |-> FALSE]
    /\ si = NoSignIn /\ reloads = 0 /\ form = NoForm /\ login = NoLogin

NextRemount ==
    \/ Remount
    \/ InitAfterDelay
    \/ \E r \in {Null} : RedirectReply(r)
    \/ AuthStateChanged
    \/ \E c \in BagToSet(calls) : \E ok \in BOOLEAN : GetDocReply(c, ok)
    \/ \E c \in BagToSet(calls) : \E ok \in BOOLEAN : GetDocsReply(c, ok)
    \/ \E c \in BagToSet(calls) : \E ok \in BOOLEAN : SignOutReply(c, ok)
    \/ \E u \in Users : ProviderSignIn(u)

SpecRemount == InitRemount /\ [][NextRemount]_vars

\* The page opened by Alice, who holds a session and may come back from a
\* redirect, so that two checks of her access overlap.  The cache holds what
\* an earlier grant left: nothing, or an entry that is 30 days old now or one
\* second later.  Every awaited call succeeds; she logs out and signs in
\* again, and the whitelist records are deleted at some moment.
InitGrant ==
    /\ NoServer
    /\ user = Null /\ loading = TRUE
    /\ storageOk = TRUE
    /\ clock = CacheMs
    /\ cache \in [Emails -> {NoEntry, [access |-> "true", ts |-> 0], [access |-> "true", ts |-> 1]}]
    /\ pending = NoMarker
    /\ hardcoded \in {{}, {AliceEmail}}
    /\ whitelist \in IF hardcoded = {}
                     THEN [byId : SUBSET Emails, byField : SUBSET Emails]
                     ELSE {[byId |-> {}, byField |-> {}]}
    /\ currentUser = Alice
    /\ redirectResult \in {Null, Alice}
    /\ isMobileSafari = FALSE
    /\ events = <<>> /\ subscribed = FALSE /\ isActive = TRUE
    /\ initPc = "delay" /\ isRedirectPending = FALSE /\ timer = FALSE
    /\ calls = EmptyBag /\ signIns = 0 /\ done = NoDone
    /\ runs = [u \in Users |-> 0] /\ outcome = [u \in Users |-> "none"] /\ fx = NoFx
    /\ env = [ua |-> UaDesktop, standalone |-> FALSE]
    /\ si = NoSignIn /\ reloads = 0 /\ form = NoForm /\ login = NoLogin

NextGrant ==
    \/ InitAfterDelay
    \/ \E r \in {Alice, Null} : RedirectReply(r)
    \/ AuthStateChanged
    \/ \E c \in BagToSet(calls) : GetDocReply(c, TRUE)
    \/ \E c \in BagToSet(calls) : GetDocsReply(c, TRUE)
    \/ \E c \in BagToSet(calls) : SignOutReply(c, TRUE)
    \/ \E u \in {Alice} : ProviderSignIn(u)
    \/ ClockTick
    \/ logout
    \/ \E c \in BagToSet(calls) : LogoutReply(c, TRUE)
    \/ WhitelistRemoved

SpecGrant == InitGrant /\ [][NextGrant]_vars

\* The page opened by Alice, who holds a session; she logs out, and signOut
\* resolves or rejects.
NextLogout ==
    \/ InitAfterDelay
    \/ \E r \in {Null} : RedirectReply(r)
    \/ AuthStateChanged
    \/ \E c \in BagToSet(calls) : \E ok \in BOOLEAN : GetDocReply(c, ok)
    \/ \E c \in BagToSet(calls) : \E ok \in BOOLEAN : GetDocsReply(c, ok)
    \/ \E c \in BagToSet(calls) : \E ok \in BOOLEAN : SignOutReply(c, ok)
    \/ \E u \in {Alice} : ProviderSignIn(u)
    \/ logout
    \/ \E c \in BagToSet(calls) : \E ok \in BOOLEAN : LogoutReply(c, ok)

SpecLogout == InitCache /\ [][NextLogout]_vars

\* A page on which nobody is signed in, on one of the devices, in a browser
\* tab or as an installed app; Alice is in the whitelist or she is not.
InitSignIn ==
    /\ NoServer
    /\ user = Null /\ loading = TRUE
    /\ storageOk \in BOOLEAN
    /\ clock = CacheMs
    /\ cache = [e \in Emails |-> NoEntry]
    /\ pending = NoMarker
    /\ hardcoded = {}
    /\ whitelist \in {[byId |-> {AliceEmail}, byField |-> {}], [byId |-> {}, byField |-> {}]}
    /\ currentUser = Null /\ redirectResult = Null
    /\ env \in [ua : UserAgentsOfDevices, standalone : {FALSE}]
              \cup {[ua |-> UaDesktop, standalone |-> TRUE]}
    /\ isMobileSafari = IsMobileSafari(env.ua)
    /\ events = <<>> /\ subscribed = FALSE /\ isActive = TRUE
    /\ initPc = "delay" /\ isRedirectPending = FALSE /\ timer = FALSE
    /\ calls = EmptyBag /\ signIns = 0 /\ done = NoDone
    /\ runs = [u \in Users |-> 0] /\ outcome = [u \in Users |-> "none"] /\ fx = NoFx
    /\ si = NoSignIn /\ reloads = 0 /\ form = NoForm /\ login = NoLogin

NextSignIn ==
    \/ SignInClick
    \/ \E ok \in BOOLEAN : PersistenceReply(ok)
    \/ SignInWaitOver
    \/ \E r \in {Alice} \cup PopupErrors : PopupReply(r)
    \/ \E ok \in BOOLEAN : RedirectCallReply(ok)
    \/ Navigate
    \/ InitAfterDelay
    \/ \E r \in Users \cup {Null, "error"} : RedirectReply(r)
    \/ RedirectTimeout
    \/ AuthStateChanged
    \/ \E c \in BagToSet(calls) : \E ok \in BOOLEAN : GetDocReply(c, ok)
    \/ \E c \in BagToSet(calls) : \E ok \in BOOLEAN : GetDocsReply(c, ok)
    \/ \E c \in BagToSet(calls) : \E ok \in BOOLEAN : SignOutReply(c, ok)

SpecSignIn == InitSignIn /\ [][NextSignIn]_vars

ValidPayload == [len |-> 1000, mimeType |-> "image/jpeg"]
JsonReply == [text |-> <<"json">>]

\* Both limiters under load from one client that sends well-formed requests.
InitRL ==
    /\ now = 0
    /\ rateLimit = <<>>
    /\ others = NoOthers
    /\ analysisRateLimit = <<>>
    /\ apiKey = TRUE
    /\ clients = {IpA}
    /\ lastReq = [svc |-> "none"]
    /\ win = NoWindows
    /\ analyses = EmptyBag
    /\ NoBrowser

NextRL ==
    \/ Tick
    \/ \E c \in Clients : \E h \in HeadersOf(c) : proxy(c, "/", h, UaBrowser)
    \/ \E c \in Clients : \E h \in HeadersOf(c) : analyzeMeal(c, h, ValidPayload, JsonReply)

SpecRL == InitRL /\ [][NextRL]_vars

(***************************************************************************)
(* The middleware behind its matcher (part_002:59-66).  A path is matched  *)
(* segment by segment; proxy runs for the requests whose path matches, and *)
(* every other request goes on untouched.                                  *)
(***************************************************************************)
RequestPaths == {"/", "/api", "/api/meals", "/_next/data/b/index.json", "/_next/static/a.js",
                 "/favicon.ico", "/login"}

\* The segments of a pathname
Segments(path) ==
    CASE path = "/" -> <<>>
      [] path = "/api" -> <<"api">>
      [] path = "/api/meals" -> <<"api", "meals">>
      [] path = "/_next/data/b/index.json" -> <<"_next", "data", "b", "index.json">>
      [] path = "/_next/static/a.js" -> <<"_next", "static", "a.js">>
      [] path = "/favicon.ico" -> <<"favicon.ico">>
      [] OTHER -> <<"login">>

\* part_002:60-64  matcher: '/', '/api/:path*', '/_next/data/:path*'
Matcher(path) ==
    LET seg == Segments(path) IN
    \/ seg = <<>>
    \/ Len(seg) >= 1 /\ seg[1] = "api"
    \/ Len(seg) >= 2 /\ seg[1] = "_next" /\ seg[2] = "data"

\* A request arrives at the server
Request(c, path, h, ua) ==
    IF Matcher(path)
    THEN proxy(c, path, h, ua)
    ELSE /\ c \in clients
         /\ lastReq' = HttpAnswer(ProxyIp(h), "next", FALSE)
         /\ UNCHANGED <<now, rateLimit, others, analysisRateLimit, apiKey, clients, win, analyses,
                        authVars, siVars>>

NextHttp ==
    \/ Tick
    \/ \E c \in Clients : \E h \in HeadersOf(c) : \E path \in RequestPaths : \E ua \in UserAgents :
          Request(c, path, h, ua)

SpecHttp == InitRL /\ [][NextHttp]_vars

(***************************************************************************)
(* The HTTP limiter under a crowd.  Besides the clients followed one by    *)
(* one, a crowd of IPs never seen before sends one request each at the     *)
(* present instant; their records, all {count: 1, timestamp: now}, are     *)
(* the entries of `others`.  One crowd is in the table at a time.          *)
(***************************************************************************)
CrowdIp == "crowd"
CrowdSizes == {SweepSize - 1, SweepSize}

\* part_002:13-57, once for each IP of the crowd: each request creates its
\* record (line 37) and runs the sweep (lines 47-54) at the same instant
CrowdRequests(n) ==
    LET grown == [n |-> n, timestamp |-> now]
        swept == HttpSweep(rateLimit, grown, now)
    IN  /\ others.n = 0
        /\ rateLimit' = swept.tbl
        /\ others' = swept.oth
        /\ lastReq' = HttpAnswer(CrowdIp, "next", TRUE)
        /\ UNCHANGED <<now, analysisRateLimit, apiKey, clients, win, analyses, authVars, siVars>>

InitSweep ==
    /\ now = 0
    /\ rateLimit = <<>>
    /\ others = NoOthers
    /\ analysisRateLimit = <<>>
    /\ apiKey = TRUE
    /\ clients = {IpA, IpB}
    /\ lastReq = [svc |-> "none"]
    /\ win = NoWindows
    /\ analyses = EmptyBag
    /\ NoBrowser

\* IpA sends at will; IpB sends when the table holds no record of it.
NextSweep ==
    \/ Tick
    \/ \E h \in HeadersOf(IpA) : proxy(IpA, "/", h, UaBrowser)
    \/ \E h \in HeadersOf(IpB) : IpB \notin DOMAIN rateLimit /\ proxy(IpB, "/", h, UaBrowser)
    \/ \E n \in CrowdSizes : CrowdRequests(n)

SpecSweep == InitSweep /\ [][NextSweep]_vars

(***************************************************************************)
(* Both limiters with two clients, under two keys in each table.  IpA has  *)
(* sent all but one of the requests one of the limiters allows it; a key   *)
(* sends while its record is light or next to the limit; and a crowd fills *)
(* the table of the HTTP limiter up to the sweep.                          *)
(***************************************************************************)
FewOf(tbl, k, max) ==
    IF k \in DOMAIN tbl THEN tbl[k].count < MaxLight \/ tbl[k].count >= max - 1 ELSE TRUE

InitFrame ==
    /\ now = 0
    /\ others = NoOthers
    /\ apiKey = TRUE
    /\ clients = {IpA, IpB}
    /\ lastReq = [svc |-> "none"]
    /\ analyses = EmptyBag
    /\ NoBrowser
    /\ \E h \in HeadersOf(IpA) :
          \/ /\ rateLimit = Put(<<>>, ProxyIp(h), [count |-> HttpMaxRequests - 1, timestamp |-> 0])
             /\ analysisRateLimit = <<>>
             /\ win = [NoWindows EXCEPT
                          !.http = Put(<<>>, ProxyIp(h),
                                       [start |-> 0, n |-> HttpMaxRequests - 1, refused |-> FALSE]),
                          !.plain = rateLimit]
          \/ /\ rateLimit = <<>>
             /\ analysisRateLimit =
                   Put(<<>>, AnalyzeIp(h), [count |-> AiMaxRequests - 1, timestamp |-> 0])
             /\ win = [NoWindows EXCEPT
                          !.ai = Put(<<>>, AnalyzeIp(h),
                                     [start |-> 0, n |-> AiMaxRequests - 1, refused |-> FALSE])]

\* The instants right after a window of either limiter has elapsed
FrameTimes == {HttpWindowMs + 1, AiWindowMs + 1}

NextFrame ==
    \/ Tick /\ now' \in FrameTimes
    \/ \E c \in Clients : \E h \in HeadersOf(c) :
          FewOf(rateLimit, ProxyIp(h), HttpMaxRequests) /\ proxy(c, "/", h, UaBrowser)
    \/ \E c \in Clients : \E h \in HeadersOf(c) :
          /\ FewOf(analysisRateLimit, AnalyzeIp(h), AiMaxRequests)
          /\ analyzeMeal(c, h, ValidPayload, JsonReply)
    \/ \E n \in CrowdSizes : CrowdRequests(n)

SpecFrame == InitFrame /\ [][NextFrame]_vars

(***************************************************************************)
(* The analysis action called with every kind of payload, with and without *)
(* an API key in the environment, and answered in every way by the AI      *)
(* endpoint.                                                               *)
(***************************************************************************)
InitAnalyze ==
    /\ now = 0
    /\ rateLimit = <<>>
    /\ others = NoOthers
    /\ analysisRateLimit = <<>>
    /\ apiKey \in BOOLEAN
    /\ clients = {IpA}
    /\ lastReq = [svc |-> "none"]
    /\ win = NoWindows
    /\ analyses = EmptyBag
    /\ NoBrowser

NextAnalyze ==
    \/ Tick
    \/ \E h \in HeadersOf(IpA) : \E payload \in Payloads : \E reply \in AiReplies :
          analyzeMeal(IpA, h, payload, reply)

SpecAnalyze == InitAnalyze /\ [][NextAnalyze]_vars

(***************************************************************************)
(* analyzeMeal step by step.  The server action is an async function: it   *)
(* is suspended at `await headers()` (actions.ts:15) and at the call of    *)
(* the AI endpoint (actions.ts:71), and between two awaits it runs to      *)
(* completion.  Other requests are handled while an invocation is          *)
(* suspended.  proxy (part_002:13-57) has no await at all.                 *)
(***************************************************************************)
\* Invocations of analyzeMeal suspended at the same time
MaxPending == 2

NoRecord == [count |-> 0, timestamp |-> -1]
RecordOf(tbl, k) == IF k \in DOMAIN tbl THEN tbl[k] ELSE NoRecord

\* actions.ts:22 read before the await of line 15: what the invocation saw when it began
CurrentLimit_beforeAwait(call, tbl) == call.seen

\* actions.ts:22  const currentLimit = analysisRateLimit.get(ip), read when the
\* invocation resumes after line 15
CurrentLimit(call, tbl) == RecordOf(tbl, call.key)

\* actions.ts:12-15: the invocation begins and waits for headers().  `seen` is
\* history: the record of the key at that moment.
AnalyzeStart(c, h, payload) ==
    LET ip == AnalyzeIp(h) IN
    /\ c \in clients
    /\ BagCardinality(analyses) < MaxPending
    /\ analyses' = Suspend(analyses, [key |-> ip, pc |-> "headers", payload |-> payload,
                                      seen |-> RecordOf(analysisRateLimit, ip), raced |-> FALSE])
    /\ UNCHANGED <<now, rateLimit, others, analysisRateLimit, apiKey, clients, lastReq, win,
                   authVars, siVars>>

\* actions.ts:16-71: headers() has returned; the limiter, the validations, and
\* the call of the AI endpoint, at which the invocation is suspended again.
\* `raced` is history: the record was written by another request meanwhile.
AnalyzeLimit(call) ==
    LET ip == call.key
        cur == CurrentLimit(call, analysisRateLimit)
        read == IF cur = NoRecord THEN Drop(analysisRateLimit, {ip})
                ELSE Put(analysisRateLimit, ip, cur)
        lim == AiLimit(read, ip, now)
        w == WinStep(win.ai, ip, now, AiWindowMs, lim.tbl[ip].timestamp = now, lim.denied)
        thrown == IF lim.denied THEN "limit"
                  ELSE IF ~apiKey THEN "GEMINI_API_KEY is not set"
                  ELSE IF call.payload.len = 0 \/ call.payload.mimeType = "" THEN "Ongeldige invoer"
                  ELSE IF call.payload.len > MaxBase64Len THEN "Afbeelding is te groot"
                  ELSE ""
    IN  /\ BagIn(call, analyses)
        /\ call.pc = "headers"
        /\ AiMaySend(ip, w[ip].n)
        /\ analysisRateLimit' = IF lim.denied THEN analysisRateLimit
                                ELSE Put(analysisRateLimit, ip, lim.tbl[ip])
        /\ win' = [win EXCEPT !.ai = w, !.payload = call.payload,
                              !.called = CalledStep(@, ip, w[ip].n = 1, thrown = "")]
        /\ IF thrown # ""
           THEN /\ lastReq' = AiAnswer(ip, thrown, "", FALSE)
                /\ analyses' = Resume(analyses, call)
           ELSE /\ lastReq' = AiAnswer(ip, "awaiting", "", FALSE)
                /\ analyses' = Suspend(Resume(analyses, call),
                                       [call EXCEPT !.pc = "generate", !.seen = NoRecord,
                                                    !.raced = (call.seen # RecordOf(analysisRateLimit, ip))])
        /\ UNCHANGED <<now, rateLimit, others, apiKey, clients, authVars, siVars>>

\* actions.ts:71-108: the AI endpoint has answered
AnalyzeReply(call, reply) ==
    LET out == AiOutcome(reply) IN
    /\ BagIn(call, analyses)
    /\ call.pc = "generate"
    /\ lastReq' = AiAnswer(call.key, out.result, out.msg, TRUE)
    /\ analyses' = Resume(analyses, call)
    /\ UNCHANGED <<now, rateLimit, others, analysisRateLimit, apiKey, clients, win, authVars, siVars>>

\* The two handlers keep separate tables: a run has the requests of one of them,
\* in every order in which they can be handled.
NextConc ==
    \/ Tick
    \/ \E h \in HeadersOf(IpA) :
          /\ analysisRateLimit = <<>> /\ analyses = EmptyBag
          /\ proxy(IpA, "/", h, UaBrowser)
    \/ \E h \in HeadersOf(IpA) : rateLimit = <<>> /\ AnalyzeStart(IpA, h, ValidPayload)
    \/ \E call \in BagToSet(analyses) : AnalyzeLimit(call)
    \/ \E call \in BagToSet(analyses) : AnalyzeReply(call, JsonReply)

SpecConc == InitRL /\ [][NextConc]_vars

(***************************************************************************)
(* The form in use.  A user, signed in or not, picks photos, edits the     *)
(* fields, has photos analysed and submits meals.  The server has seen     *)
(* this client before: its record in the analyzeMeal limiter is one short  *)
(* of the limit.  The store holds one meal less than the monthly limit, or *)
(* as many.                                                                *)
(***************************************************************************)
FormHeader == [xff |-> <<IpA, "10.0.0.1">>, realIp |-> ""]

InitMeal ==
    /\ now = 0 /\ rateLimit = <<>> /\ others = NoOthers
    /\ analysisRateLimit =
          Put(<<>>, AnalyzeIp(FormHeader), [count |-> AiMaxRequests - 1, timestamp |-> 0])
    /\ win = [NoWindows EXCEPT
                 !.ai = Put(<<>>, AnalyzeIp(FormHeader),
                            [start |-> 0, n |-> AiMaxRequests - 1, refused |-> FALSE])]
    /\ apiKey \in BOOLEAN
    /\ clients = {IpA} /\ lastReq = [svc |-> "none"] /\ analyses = EmptyBag
    /\ user \in {Null, Alice} /\ loading = FALSE
    /\ cache = [e \in Emails |-> NoEntry]
    /\ pending = NoMarker
    /\ storageOk = TRUE /\ hardcoded = {} /\ whitelist = [byId |-> Emails, byField |-> Emails]
    /\ clock = 0 /\ currentUser = user /\ events = <<>> /\ redirectResult = Null
    /\ isMobileSafari = FALSE /\ subscribed = TRUE /\ isActive = TRUE
    /\ initPc = "off" /\ isRedirectPending = FALSE /\ timer = FALSE
    /\ calls = EmptyBag /\ signIns = 0 /\ done = NoDone
    /\ runs = [u \in Users |-> 0] /\ outcome = [u \in Users |-> "none"] /\ fx = NoFx
    /\ env = [ua |-> UaDesktop, standalone |-> FALSE] /\ si = NoSignIn /\ reloads = 0
    /\ \E m \in {MonthlyLimit - 1, MonthlyLimit} : form = [NoForm EXCEPT !.meals = m]
    /\ login = NoLogin

NextMeal ==
    \/ \E img \in Images : handleImageChange(img)
    \/ \E img \in Images : onloadend(img)
    \/ \E text \in {"", " ", "typed"} : onChange("title", text)
    \/ triggerAnalyze
    \/ \E reply \in AiReplies : \E doc \in DocsOf(reply) : AnalyzeAnswered(FormHeader, reply, doc)
    \/ AnalyzeUnreachable
    \/ handleSubmit
    \/ \E call \in BagToSet(form.submits) : \E ok \in BOOLEAN : CountAnswered(call, ok)
    \/ \E call \in BagToSet(form.submits) : \E ok \in BOOLEAN : SubmitAnswered(call, ok)

SpecMeal == InitMeal /\ [][NextMeal]_vars

(***************************************************************************)
(* The login page of the email-link variant.  Nobody is signed in, the     *)
(* page has loaded, and the address the visitor knows is on the whitelist  *)
(* (in the hardcoded list, under its own key, or in the email field of a   *)
(* record) or not.                                                         *)
(***************************************************************************)
InitLogin ==
    /\ NoServer
    /\ user = Null /\ loading = FALSE
    /\ cache = [e \in Emails |-> NoEntry]
    /\ pending = NoMarker
    /\ storageOk = TRUE
    /\ hardcoded \in SUBSET Emails
    /\ whitelist \in [byId : SUBSET Emails, byField : SUBSET Emails]
    /\ clock = 0 /\ currentUser = Null /\ events = <<>> /\ redirectResult = Null
    /\ isMobileSafari = FALSE /\ subscribed = TRUE /\ isActive = TRUE
    /\ initPc = "off" /\ isRedirectPending = FALSE /\ timer = FALSE
    /\ calls = EmptyBag /\ signIns = 0 /\ done = NoDone
    /\ runs = [u \in Users |-> 0] /\ outcome = [u \in Users |-> "none"] /\ fx = NoFx
    /\ env = [ua |-> UaDesktop, standalone |-> FALSE] /\ si = NoSignIn /\ reloads = 0
    /\ form = NoForm /\ login = NoLogin

NextLogin ==
    \/ \E a \in Addresses : setEmail(a)
    \/ setSentFalse
    \/ LoginSubmit
    \/ \E ok \in BOOLEAN : LinkCheckAnswered(ok)
    \/ \E ok \in BOOLEAN : LinkSendAnswered(ok)

SpecLogin == InitLogin /\ [][NextLogin]_vars

(***************************************************************************)
(* C1: in both rate limiters (HTTP: N = 100, W = 10 min; AI analysis:      *)
(* N = 20, W = 1 h) the request that is number n of its key's window is    *)
(* allowed exactly when n <= N (so the first N are allowed and number N+1  *)
(* is answered 429, resp. with the thrown limit error), and the request    *)
(* that opens a window (the key's first, or the first one more than W      *)
(* after the window's start) is allowed and leaves the record              *)
(* {count: 1, timestamp: that request's time}.                             *)
(***************************************************************************)
C1_WindowAllowsExactlyN ==
    /\ (lastReq.svc = "http" /\ lastReq.limited) =>
          LET w == win.http[lastReq.ip] IN
          /\ (lastReq.result = "next") <=> (w.n <= HttpMaxRequests)
          /\ (lastReq.result = "429") <=> (w.n > HttpMaxRequests)
          /\ (w.n = 1 /\ lastReq.ip \in DOMAIN rateLimit) =>
                rateLimit[lastReq.ip] = [count |-> 1, timestamp |-> w.start]
    /\ lastReq.svc = "ai" =>
          LET w == win.ai[lastReq.hdr] IN
          /\ (lastReq.result # "limit") <=> (w.n <= AiMaxRequests)
          /\ w.n = 1 => analysisRateLimit[lastReq.hdr] = [count |-> 1, timestamp |-> w.start]

\* The AI limiter has just refused request 21 of a window, while the HTTP key,
\* refused earlier as request 101 of its window, is in a new window again.
C1_Witness ==
    /\ lastReq.svc = "ai" /\ lastReq.result = "limit"
    /\ win.ai[lastReq.hdr].n = AiMaxRequests + 1
    /\ IpA \in DOMAIN win.http
    /\ win.http[IpA].refused /\ win.http[IpA].n = 1 /\ win.http[IpA].start > HttpWindowMs
    /\ rateLimit[IpA] = [count |-> 1, timestamp |-> win.http[IpA].start]

(***************************************************************************)
(* C2: checkAccess grants an identity (sets user to it) if and only if the *)
(* email is in the hardcoded list, or a cache entry for it is marked       *)
(* granted and not expired, or a remote whitelist lookup found a record;   *)
(* in every other case user ends as null.                                  *)
(***************************************************************************)
C2_GrantsExactly ==
    done.who # Null => (done.granted <=> (done.listed \/ done.cacheHit \/ done.found))

C2_GrantIffElseNull ==
    /\ C2_GrantsExactly
    /\ done.who # Null => user = IF done.granted THEN done.who ELSE Null

(***************************************************************************)
(* C3: when a remote whitelist call (direct lookup or query) failed, the   *)
(* invocation does not grant, it has called signOut, and user is null when *)
(* it returns.                                                             *)
(***************************************************************************)
C3_RemoteErrorDenies ==
    (done.who # Null /\ done.dbError) =>
        ~done.granted /\ user = Null /\ done.signOuts >= 1

(***************************************************************************)
(* C4: for an identity without email checkAccess denies (user is null when *)
(* it returns, signOut was invoked) and issues no remote lookup.           *)
(***************************************************************************)
C4_NoEmailDenies ==
    (done.who # Null /\ EmailOf(done.who) = "") =>
        ~done.granted /\ user = Null /\ done.remote = 0 /\ done.signOuts >= 1

(***************************************************************************)
(* C5: an invocation for an identity whose cache entry is marked granted   *)
(* and not expired grants in the step in which it is called, with no       *)
(* remote call and no change of the cache; an invocation that directly     *)
(* follows one for the same identity leaves user as the first set it.      *)
(***************************************************************************)
C5_CacheHitNoRemote ==
    [][ (done'.who # Null /\ done'.cacheHit) =>
          /\ done'.granted /\ user' = done'.who
          /\ done'.remote = 0
          /\ cache' = cache /\ calls' = calls
          /\ (done.who = done'.who /\ done.cacheHit) => user' = user ]_vars

\* The second of two invocations for Alice, both served from the cache (she is
\* neither hardcoded nor in the whitelist), has just granted.
C5_Witness ==
    /\ done.who = Alice /\ done.cacheHit /\ done.granted /\ done.remote = 0
    /\ runs[Alice] = 2 /\ done.first = "granted"
    /\ hardcoded = {} /\ whitelist = [byId |-> {}, byField |-> {}]
    /\ user = Alice

(***************************************************************************)
(* C6: for an identity that is in neither the hardcoded list nor the       *)
(* whitelist (both lookups answered and found nothing) and has no valid    *)
(* cache entry, checkAccess denies (user is null when it returns), leaves  *)
(* no cache entry for the email and has called signOut.                    *)
(***************************************************************************)
C6_NotListedDenied ==
    (/\ done.who # Null /\ EmailOf(done.who) # ""
     /\ ~done.listed /\ ~done.cacheHit /\ ~done.dbError /\ done.remote = 2 /\ ~done.found) =>
        /\ ~done.granted /\ user = Null
        /\ cache[EmailOf(done.who)] = NoEntry
        /\ done.signOuts >= 1

(***************************************************************************)
(* C7: when the lookups an invocation issued were all answered and the     *)
(* whitelist holds the email as a document id or in an email field, the    *)
(* invocation grants: a record found only by one of the two methods is     *)
(* enough.                                                                 *)
(***************************************************************************)
C7_EitherLookupGrants ==
    (/\ done.who # Null /\ done.remote >= 1 /\ ~done.dbError
     /\ EmailOf(done.who) \in whitelist.byId \cup whitelist.byField) =>
        done.granted /\ user = done.who

\* Alice is in the whitelist by email field only, and the query that followed
\* the empty direct lookup has just granted her.
C7_Witness ==
    /\ done.who = Alice /\ done.granted /\ done.remote = 2
    /\ whitelist = [byId |-> {}, byField |-> {AliceEmail}]
    /\ user = Alice

(***************************************************************************)
(* C8: within one sign-in attempt of an identity, every invocation of      *)
(* checkAccess for it ends with the outcome the first one ended with.      *)
(***************************************************************************)
C8_OutcomeStable ==
    (done.who # Null /\ done.first # "none") =>
        (done.granted <=> done.first = "granted")

(***************************************************************************)
(* C9: within one sign-in attempt of an identity, checkAccess is invoked   *)
(* at most once for it, and signOut and the error message at most once.    *)
(***************************************************************************)
C9_GateOncePerAttempt ==
    /\ \A u \in Users : runs[u] <= 1
    /\ fx.signOut <= 1 /\ fx.toast <= 1

(***************************************************************************)
(* C10: loading is true while an invocation of checkAccess is suspended.   *)
(***************************************************************************)
C10_LoadingWhileChecking ==
    calls # EmptyBag => loading

(***************************************************************************)
(* What holds of the denials of C2, C3, C4 and C6 when no signOut of the   *)
(* invocation was rejected: user is null when it returns, and the          *)
(* not-in-whitelist denial leaves no cache entry.                          *)
(***************************************************************************)
DenialWithSignOutResolved ==
    (done.who # Null /\ ~done.granted /\ done.soFails = 0) =>
        /\ user = Null /\ currentUser = Null /\ done.signOuts = 1
        /\ (EmailOf(done.who) # "" /\ ~done.dbError) => cache[EmailOf(done.who)] = NoEntry

(***************************************************************************)
(* Fairness for the page: the start-up delay and the redirect timeout      *)
(* elapse, pending notifications are delivered to the listener, and every  *)
(* awaited provider or store call answers (resolves or rejects).  A        *)
(* sign-in at the provider is never required to happen.                    *)
(***************************************************************************)
SpecAuthLive ==
    /\ SpecAuth
    /\ WF_vars(InitAfterDelay)
    /\ WF_vars(\E r \in Users \cup {Null, "error"} : RedirectReply(r))
    /\ WF_vars(RedirectTimeout)
    /\ WF_vars(AuthStateChanged)
    /\ WF_vars(\E c \in BagToSet(calls) : \E ok \in BOOLEAN : GetDocReply(c, ok))
    /\ WF_vars(\E c \in BagToSet(calls) : \E ok \in BOOLEAN : GetDocsReply(c, ok))
    /\ WF_vars(\E c \in BagToSet(calls) : \E ok \in BOOLEAN : SignOutReply(c, ok))

(***************************************************************************)
(* C11: when initializeAuth found the redirect marker, getRedirectResult   *)
(* gave no user and nobody is signed in, the armed timeout leads to        *)
(* loading = false with the failure message shown (unless a sign-in        *)
(* arrives first); and from every state loading eventually is false.       *)
(***************************************************************************)
AwaitingRedirect ==
    timer /\ storageOk /\ pending.local /\ currentUser = Null /\ signIns = 0

C12_BlockedPopupFallsBack ==
    [][ (si.pc = "popup" /\ si'.popErr = PopupBlocked) =>
          /\ si'.pc = "redirect" /\ si'.redirects = 1
          /\ si'.toasts = 0 /\ loading' = loading ]_vars

\* The popup was blocked and the call now awaits signInWithRedirect, nothing shown.
C12_Witness ==
    si.popErr = PopupBlocked /\ si.pc = "redirect" /\ si.redirects = 1 /\ si.toasts = 0

(***************************************************************************)
(* C13: in an installed app (standalone display mode) or in a browser on a *)
(* phone or tablet signInWithGoogle never calls signInWithPopup.           *)
(***************************************************************************)
InstalledOrMobile ==
    env.standalone \/ env.ua \cap {"iPhone", "iPad", "iPod", "Android"} # {}

C13_NoPopupOnMobile ==
    InstalledOrMobile => si.popups = 0

(***************************************************************************)
(* C14: a call makes at most one popup attempt and at most one redirect    *)
(* attempt; on a desktop the redirect comes only after a popup that failed *)
(* as blocked, closed by the user or cancelled; any other popup error      *)
(* ends the call with the error message, loading = false and no redirect.  *)
(***************************************************************************)
C14_FallbackOnlyIfBenign ==
    /\ [](/\ si.popups <= 1 /\ si.redirects <= 1
          /\ (si.redirects = 1 /\ ~IsMobile(env.ua)) =>
                (si.popups = 1 /\ si.popErr \in {PopupBlocked, PopupClosed, PopupCancelled}))
    /\ [][ (si.pc = "popup" /\ si'.popErr = NetworkFailed) =>
             /\ si'.pc = "idle" /\ si'.redirects = 0
             /\ si'.toasts = 1 /\ ~loading' ]_vars

\* A popup that failed for another reason: the message was shown, no redirect
C14_Witness ==
    /\ si.popErr = NetworkFailed /\ si.pc = "idle" /\ si.popups = 1
    /\ si.redirects = 0 /\ si.toasts = 1 /\ ~loading

(***************************************************************************)
(* C15: in a browser whose stores are usable, whenever signInWithRedirect  *)
(* is called the redirect marker is in a store, and the initialization of  *)
(* the page load that follows the redirect reads the marker as set.        *)
(***************************************************************************)
C15_MarkerBeforeRedirect ==
    /\ []((storageOk /\ si.redirects >= 1) => si.marked)
    /\ [][ (storageOk /\ reloads >= 1 /\ initPc = "delay" /\ initPc' = "redirect1") =>
             isRedirectPending' ]_vars

(***************************************************************************)
(* C16: the step that obtains a redirect outcome (a user from the listener *)
(* or from getRedirectResult, an error of getRedirectResult, the timeout   *)
(* that still finds the marker) leaves no marker in any store; and no      *)
(* marker is set while loading is false.                                   *)
(***************************************************************************)
C16_OutcomeClearsMarker ==
    [][ (\/ runs' # runs /\ si' = si
         \/ initPc \in {"redirect1", "redirect2"} /\ initPc' = "done" /\ loading /\ ~loading'
         \/ timer /\ ~timer' /\ StillPending(pending) /\ si' = si /\ reloads' = reloads)
        => pending' = NoMarker ]_vars

C16_NoMarkerOnceSettled ==
    /\ C16_OutcomeClearsMarker
    /\ [](~loading => pending = NoMarker)


(***************************************************************************)
(* C17: in both limiters a request at time now for a key opens a new       *)
(* window, leaving the record at count 1 and windowStart now, and being    *)
(* allowed, exactly when the key has no record or now - windowStart is     *)
(* strictly greater than the window length; a request that arrives exactly *)
(* one window length after windowStart is counted in the existing window,  *)
(* whose windowStart it keeps.                                             *)
(***************************************************************************)
\* The step is a limited HTTP request of key k
HttpRequestOf(k) ==
    /\ win'.http # win.http
    /\ lastReq'.svc = "http" /\ lastReq'.ip = k

\* The step is an analyzeMeal request of key k
AiRequestOf(k) ==
    /\ win'.ai # win.ai
    /\ lastReq'.svc = "ai" /\ lastReq'.hdr = k

\* The key has no record in the table, or its window is strictly older than W
WindowOver(tbl, k, t, W) == k \notin DOMAIN tbl \/ t - tbl[k].timestamp > W

C17_Http_ResetIffStrictlyOlder ==
    [][\A k \in DOMAIN win'.http : HttpRequestOf(k) =>
          IF WindowOver(rateLimit, k, now, HttpWindowMs)
          THEN /\ rateLimit'[k] = [count |-> 1, timestamp |-> now]
               /\ lastReq'.result = "next"
          ELSE rateLimit'[k].timestamp = rateLimit[k].timestamp]_vars

C17_Ai_ResetIffStrictlyOlder ==
    [][\A k \in DOMAIN win'.ai : AiRequestOf(k) =>
          IF WindowOver(analysisRateLimit, k, now, AiWindowMs)
          THEN /\ analysisRateLimit'[k] = [count |-> 1, timestamp |-> now]
               /\ lastReq'.result # "limit"
          ELSE analysisRateLimit'[k].timestamp = analysisRateLimit[k].timestamp]_vars

C17_ResetIffStrictlyOlder ==
    C17_Http_ResetIffStrictlyOlder /\ C17_Ai_ResetIffStrictlyOlder


(***************************************************************************)
(* C18: in both limiters every request inside an unexpired window          *)
(* increments the count of its key, a denied request included, and the     *)
(* request is allowed if and only if the incremented count is at most N.   *)
(* As the code has it: a request strictly inside a window is allowed if    *)
(* and only if the count it found plus one is at most N; an allowed        *)
(* request increments the count; a denied request increments it in the     *)
(* HTTP limiter and leaves it as it was in the analyzeMeal limiter.        *)
(***************************************************************************)
\* The key has a record whose window, opened less than W ago, has not run out
InsideWindow(tbl, k, t, W) == k \in DOMAIN tbl /\ t - tbl[k].timestamp < W

SizeWith(k) == TableSize(rateLimit, others) + (IF k \in DOMAIN rateLimit THEN 0 ELSE 1)

\* Entries opened before now - W
Outdated(timestamp) == timestamp < now - HttpWindowMs

\* In this step the entries other than that of k were swept
SweptAround(k) ==
    /\ \A j \in DOMAIN rateLimit \ {k} :
          IF Outdated(rateLimit[j].timestamp)
          THEN j \notin DOMAIN rateLimit'
          ELSE j \in DOMAIN rateLimit' /\ rateLimit'[j] = rateLimit[j]
    /\ k \in DOMAIN rateLimit'
    /\ others' = IF others.n > 0 /\ Outdated(others.timestamp) THEN NoOthers ELSE others

\* In this step the entries other than that of k were left as they were
KeptAround(k) ==
    /\ \A j \in DOMAIN rateLimit \ {k} : j \in DOMAIN rateLimit' /\ rateLimit'[j] = rateLimit[j]
    /\ k \in DOMAIN rateLimit'
    /\ others' = others

\* The statement of the claim: the sweep runs whatever the answer
C19_SweepOnEveryRequest ==
    [][\A k \in DOMAIN win'.http :
          HttpRequestOf(k) /\ SizeWith(k) > SweepSize => SweptAround(k)]_vars

C19_SweepOnAllowedRequest ==
    [][\A k \in DOMAIN win'.http : HttpRequestOf(k) =>
          IF lastReq'.result = "next" /\ SizeWith(k) > SweepSize
          THEN SweptAround(k)
          ELSE KeptAround(k)]_vars

\* An allowed request of IpA has run the sweep: the record of IpB, seen before,
\* is gone from the table, and so are the records of the crowd.
C19_Witness ==
    /\ lastReq.svc = "http" /\ lastReq.ip = IpA /\ lastReq.result = "next"
    /\ IpB \in DOMAIN win.http /\ IpB \notin DOMAIN rateLimit
    /\ IpA \in DOMAIN rateLimit
    /\ others = NoOthers


(***************************************************************************)
(* C20: the read-check-update of a key's record runs with no suspension    *)
(* point between the read and the write, so that under every interleaving  *)
(* of concurrent requests for one key no update is lost (the record holds  *)
(* the start of the running window and the number of requests counted in   *)
(* it) and no more than N requests of a window are allowed.                *)
(***************************************************************************)
\* The records agree with the history of the windows: every request is counted
C20_RecordsCountAll ==
    /\ \A k \in DOMAIN win.http :
          /\ k \in DOMAIN rateLimit
          /\ rateLimit[k] = [count |-> win.http[k].n, timestamp |-> win.http[k].start]
    /\ \A k \in DOMAIN win.ai :
          /\ k \in DOMAIN analysisRateLimit
          /\ analysisRateLimit[k].timestamp = win.ai[k].start
          /\ analysisRateLimit[k].count =
                IF win.ai[k].n <= AiMaxRequests THEN win.ai[k].n ELSE AiMaxRequests

\* A request is let through exactly when it is one of the first N of its window
C20_AtMostNLetThrough ==
    /\ \A k \in DOMAIN win'.http :
          HttpRequestOf(k) => ((lastReq'.result = "next") <=> (win'.http[k].n <= HttpMaxRequests))
    /\ \A k \in DOMAIN win'.ai :
          AiRequestOf(k) => ((lastReq'.result # "limit") <=> (win'.ai[k].n <= AiMaxRequests))

C20_NoLostUpdate == []C20_RecordsCountAll /\ [][C20_AtMostNLetThrough]_vars

\* Two invocations of analyzeMeal for one key are past the limiter and wait for
\* the AI endpoint; the record was written by another request while one of
\* them waited for headers(), and both are counted in the running window.
C20_Witness ==
    \E a \in BagToSet(analyses) :
        /\ a.pc = "generate" /\ a.raced
        /\ BagCardinality(analyses) = MaxPending
        /\ \A b \in BagToSet(analyses) : b.pc = "generate" /\ b.key = a.key
        /\ win.ai[a.key].n >= MaxPending
        /\ analysisRateLimit[a.key].count = win.ai[a.key].n


(***************************************************************************)
(* C21: in the HTTP middleware a request whose user agent contains a       *)
(* blocklisted substring and does not contain 'googlebot' is answered with *)
(* 403 before rate limiting and leaves the rate-limit table unchanged; a   *)
(* request whose user agent contains 'googlebot' is not bot-blocked and is *)
(* subject to the rate limiter; the only rejection statuses are 403 and    *)
(* 429.                                                                    *)
(***************************************************************************)
\* What the user agents of the exploration contain, case folded
NamesBlocklisted(ua) == ua \in {UaCurl, UaGoogle, UaBot}
NamesGooglebot(ua) == ua = UaGoogle

\* The step in which the middleware has handled a request with user agent ua
C21_Handled(ua) ==
    /\ lastReq'.svc = "http"
    /\ lastReq'.result \in {"next", "403", "429"}
    /\ IF NamesBlocklisted(ua) /\ ~NamesGooglebot(ua)
       THEN /\ lastReq'.result = "403"
            /\ ~lastReq'.limited
            /\ UNCHANGED <<rateLimit, others, win>>
       ELSE /\ lastReq'.result \in {"next", "429"}
            /\ lastReq'.limited
            /\ lastReq'.ip \in DOMAIN rateLimit'
            /\ win'.http # win.http

C21_BotsRefusedUnlimited ==
    [][\A c \in Clients : \A path \in {q \in RequestPaths : Matcher(q)} : \A ua \in UserAgents :
          \A h \in HeadersOf(c) : proxy(c, path, h, ua) => C21_Handled(ua)]_vars

\* A request with a blocklisted user agent has been answered with 403 while the
\* table holds the record of the same address, refused with 429 before.
C21_Witness ==
    /\ lastReq.svc = "http" /\ lastReq.result = "403" /\ lastReq.ip = IpA
    /\ IpA \in DOMAIN rateLimit /\ rateLimit[IpA].count > HttpMaxRequests
    /\ win.http[IpA].refused


(***************************************************************************)
(* C22: a cache entry grants only while its age is strictly less than 30   *)
(* days: for an entry aged 30 days or more, or with a missing or           *)
(* unparsable timestamp, checkAccess ignores the entry and decides by the  *)
(* hardcoded list and the remote lookup.                                   *)
(***************************************************************************)
\* The step in which checkAccess is invoked for u
Invoked(u) == runs'[u] > runs[u]

C22_ExpiredEntryIgnored ==
    [][\A u \in Users : (Invoked(u) /\ ExpiredGrant(u)) =>
          IF Listed(u)
          THEN /\ done'.who = u /\ done'.granted /\ done'.listed /\ ~done'.cacheHit
               /\ cache'[EmailOf(u)] = [access |-> "true", ts |-> clock]
          ELSE /\ user' = user
               /\ cache' = cache
               /\ \E c \in BagToSet(calls') :
                     /\ c.who = u /\ c.pc = "getDoc" /\ c.remote = 1 /\ ~c.cacheHit
                     /\ CopiesIn(c, calls') = CopiesIn(c, calls) + 1]_vars

\* An invocation that found an entry 'true' with a timestamp that is not a
\* number has asked the whitelist, got no answer and denied; the entry is
\* still in the store.
C22_Witness ==
    /\ done.who = Alice /\ done.dbError /\ ~done.granted /\ ~done.cacheHit
    /\ cache[AliceEmail] = [access |-> "true", ts |-> BadTs]


(***************************************************************************)
(* C23: the remote lookup issues the equality-filter query on the email    *)
(* field first, and the direct key lookup only when that query returned no *)
(* record: a direct key lookup in flight is the second remote call of its  *)
(* invocation, a query in flight the first.                                *)
(***************************************************************************)
C23_QueryBeforeKeyLookup ==
    \A c \in BagToSet(calls) :
        /\ c.pc = "getDoc" => c.remote = 2
        /\ c.pc = "getDocs" => c.remote = 1


(***************************************************************************)
(* C24: every denial by checkAccess (no email, not found in the whitelist, *)
(* remote lookup failure) removes any existing cache entry for that email  *)
(* and signs out the provider session: when a denying invocation for an    *)
(* email returns, signOut has been called and the store, if it is usable,  *)
(* holds no entry for the email.                                           *)
(***************************************************************************)
C24_DenialClearsCache ==
    (done.who # Null /\ ~done.granted) =>
        /\ done.signOuts >= 1
        /\ (storageOk /\ EmailOf(done.who) # "") => cache[EmailOf(done.who)] = NoEntry

\* The denials in which every signOut the invocation awaited was resolved
C24_DenialClearsCacheSignedOut ==
    (done.who # Null /\ ~done.granted /\ done.soFails = 0 /\ ~done.dbError) =>
        /\ done.signOuts >= 1
        /\ (storageOk /\ EmailOf(done.who) # "") => cache[EmailOf(done.who)] = NoEntry


(***************************************************************************)
(* C25: every successful grant by checkAccess (cache hit, hardcoded list   *)
(* or remote lookup) writes the cache entry for the email with the value   *)
(* granted and a timestamp equal to the time of that grant.  As the code   *)
(* has it: a grant by the hardcoded list or by a remote lookup writes the  *)
(* entry, stamped with the time at which the invocation grants; a grant    *)
(* served from the cache leaves the entry, and its older timestamp, as     *)
(* they are.                                                               *)
(***************************************************************************)
\* The statement of the claim
C25_EveryGrantStamps ==
    [][(done'.who # Null /\ done'.granted /\ storageOk) =>
          cache'[EmailOf(done'.who)] = [access |-> "true", ts |-> clock]]_vars

C25_FreshGrantStamps ==
    [][(done'.who # Null /\ done'.granted /\ storageOk) =>
          IF done'.cacheHit
          THEN cache' = cache
          ELSE cache'[EmailOf(done'.who)] = [access |-> "true", ts |-> clock]]_vars

\* A remote lookup has found Alice after the clock moved on, and the entry
\* written carries the time of the grant; before, the entry was not one that
\* grants.
C25_Witness ==
    /\ done.who = Alice /\ done.granted /\ done.found /\ ~done.cacheHit
    /\ clock > CacheMs
    /\ cache[AliceEmail] = [access |-> "true", ts |-> clock]


(***************************************************************************)
(* C26: in every reachable state the persisted access value of an email is *)
(* absent or 'true'; no operation writes another value, and a value is     *)
(* written only by an invocation of checkAccess that grants that email.    *)
(***************************************************************************)
C26_AbsentOrTrue == \A e \in Emails : cache[e].access \in {"", "true"}

C26_WrittenOnGrant ==
    \A e \in Emails :
        (cache'[e] # cache[e] /\ cache'[e].access # "") =>
            /\ cache'[e].access = "true"
            /\ done'.who # Null /\ done'.granted /\ EmailOf(done'.who) = e

C26_OnlyTruePersisted == []C26_AbsentOrTrue /\ [][C26_WrittenOnGrant]_vars

\* The hardcoded list has granted Alice, whom no entry served, and her entry
\* has been written.
C26_Witness ==
    /\ done.who = Alice /\ done.granted /\ done.listed /\ ~done.cacheHit /\ ~done.found
    /\ cache[AliceEmail] = [access |-> "true", ts |-> clock]
    /\ clock > CacheMs


(***************************************************************************)
(* C27: after the provider is torn down (effect cleanup) no auth-state     *)
(* subscription remains active, and no later auth event invokes            *)
(* checkAccess or changes user or loading, also when the cleanup runs      *)
(* while initializeAuth is still waiting and has not subscribed yet.       *)
(***************************************************************************)
\* The step in which the listener is called with a notification
ListenerCalled == events # <<>> /\ events' = Tail(events) /\ subscribed

C27_NoSubscriptionLeft == ~isActive => ~subscribed

C27_EventsIgnored ==
    (~isActive /\ ListenerCalled) => UNCHANGED <<user, loading, calls, runs, cache>>

C27_TornDownIsSilent == []C27_NoSubscriptionLeft /\ [][C27_EventsIgnored]_vars

C27_TornDownIgnoresEvents == [][C27_EventsIgnored]_vars


(***************************************************************************)
(* C28: while the redirect-pending marker is set, a 'no user' auth-state   *)
(* event does not end the wait (user and loading are left unchanged); the  *)
(* wait ends only when the timeout elapses, getRedirectResult fails, or an *)
(* event or a redirect result delivers a user; and after it has ended a    *)
(* late timeout callback changes nothing.                                  *)
(***************************************************************************)
\* The marker is readable and set
MarkerSet == storageOk /\ pending.local

\* The steps of the claim
NoUserEvent == ListenerCalled /\ isActive /\ Head(events) = Null
UserEvent == ListenerCalled /\ isActive /\ Head(events) # Null
TimeoutElapses == timer /\ ~timer'
RedirectAnswered == initPc \in {"redirect1", "redirect2"} /\ initPc' # initPc

C28_NoUserEventWaits ==
    (MarkerSet /\ NoUserEvent) => UNCHANGED <<user, loading, pending, calls, fx>>

C28_WaitEndsByOutcome ==
    (MarkerSet /\ loading /\ (~loading' \/ ~pending'.local)) =>
        \/ TimeoutElapses
        \/ RedirectAnswered /\ redirectResult # Null
        \/ UserEvent

C28_LateTimeoutIdle ==
    (TimeoutElapses /\ ~MarkerSet) => UNCHANGED <<user, loading, pending, calls, fx, cache>>

C28_WaitEndsOnlyByOutcome ==
    [][C28_NoUserEventWaits /\ C28_WaitEndsByOutcome /\ C28_LateTimeoutIdle]_vars

\* The page waits for a redirect outcome: the marker is set, getRedirectResult
\* has answered without a user, the timeout is armed, and the listener has
\* been called with 'no user' and left loading as it was.
C28_Witness ==
    /\ MarkerSet /\ loading /\ user = Null
    /\ subscribed /\ events = <<>> /\ currentUser = Null /\ signIns = 0
    /\ initPc = "done" /\ timer /\ isRedirectPending


(***************************************************************************)
(* C29: the two checks fail in opposite directions.  An invocation of      *)
(* checkAccess that met an error of the whitelist store denies: it has not *)
(* granted and user is null when it returns.                               *)
(***************************************************************************)
C29_StoreFailureDenies ==
    (done.who # Null /\ done.dbError) => (~done.granted /\ user = Null)

\* C29, the part of the denial that holds: the invocation has not granted and
\* has called signOut
C29_StoreFailureNeverGrants ==
    (done.who # Null /\ done.dbError) => (~done.granted /\ done.signOuts >= 1)

\* C29, handleSubmit: when the count query fails the handler goes on to the
\* upload, provided the title it validates next is not blank
C29_FailedCountUploads ==
    [][\A call \in BagToSet(form.submits) :
          (CountAnswered(call, FALSE) /\ Trim(call.fields.title) # "") =>
              /\ form'.isSubmitting
              /\ \E next \in BagToSet(form'.submits) : next.pc = "compress" /\ next.countFailed]_vars

\* C29, handleSubmit: an invocation whose count query reported 100 meals or
\* more returned at the limit, and uploaded and wrote nothing
C29_LimitReachedWritesNothing ==
    (form.last.outcome \notin {"none", "no user"} /\ ~form.last.countFailed
        /\ form.last.count >= MonthlyLimit) =>
            (form.last.outcome = "limit" /\ form.last.uploaded = 0 /\ form.last.written = 0)

\* C29, handleSubmit: the store grows only by an invocation whose count query
\* failed or reported less than 100 meals
C29_WritesUnderLimitOrUnchecked ==
    [][form'.meals # form.meals =>
          /\ form'.last.outcome = "saved"
          /\ form'.last.countFailed \/ form'.last.count < MonthlyLimit]_vars

\* The store held 100 meals, the count query failed and the meal was saved
C29_FailOpenReached ==
    form.last.outcome = "saved" /\ form.last.countFailed /\ form.meals > MonthlyLimit

\* The count query reported 100 meals and the handler returned at the limit
C29_LimitReached ==
    form.last.outcome = "limit" /\ form.last.count = MonthlyLimit

(***************************************************************************)
(* C30: when the AI endpoint answers with a text that is not empty and is  *)
(* not JSON once the fences are stripped, analyzeMeal throws an error that *)
(* differs from the errors for the rate limits, the API key, a timeout and *)
(* an invalid input, and triggerAnalyze shows it, leaves the fields and    *)
(* the photo as they are and sets isAnalyzing to false.                    *)
(***************************************************************************)
NonJsonReplies == { r \in [text : AiTexts] : r.text # <<>> /\ StripFences(r.text) # <<"json">> }

\* What analyzeMeal throws for the rate limits, the API key, a timeout and an
\* invalid input
OtherErrors ==
    {"limit", "GEMINI_API_KEY is not set", "Ongeldige invoer", "Afbeelding is te groot"}
        \cup { AiOutcome(r).result : r \in { x \in [error : AiErrors] :
                    \/ x.error.status = 429 \/ x.error.apiKeyMsg
                    \/ x.error.name = "AbortError" \/ x.error.timeoutMsg } }

C30_Reported ==
    /\ lastReq'.result \notin OtherErrors \cup {"json"}
    /\ form'.toast = ToastError(lastReq'.result, lastReq'.msg)
    /\ form'.fields = form.fields
    /\ form'.imageFile = form.imageFile /\ form'.imagePreview = form.imagePreview
    /\ ~form'.isAnalyzing

C30_NonJsonReported ==
    [][\A reply \in NonJsonReplies :
          (AnalyzeAnswered(FormHeader, reply, NoDoc) /\ lastReq'.called) => C30_Reported]_vars

\* A photo was analysed after the user had typed a title, the AI endpoint
\* answered with prose, and the form shows the error
C30_Witness ==
    /\ lastReq.svc = "ai" /\ lastReq.called
    /\ lastReq.msg = "AI reactie was geen geldige JSON."
    /\ form.toast = ToastError("Server Fout", "AI reactie was geen geldige JSON.")
    /\ form.fields.title = "typed"
    /\ ~form.isAnalyzing


(***************************************************************************)
(* C31: a link is sent only to an address that passed the whitelist check, *)
(* the login form says a link was sent only when one was sent, and for an  *)
(* empty address nothing is sent.                                          *)
(***************************************************************************)
C31_SentMeansLinkSent ==
    /\ \A a \in login.links : a # "" /\ Whitelisted(a)
    /\ login.sent => login.last = "sent" /\ login.to \in login.links

\* C31, the parts that hold: links go to whitelisted addresses only, never to
\* the empty address, and no sendMagicLink runs for the empty address
C31_LinksOnlyToWhitelisted ==
    /\ \A a \in login.links : a # "" /\ Whitelisted(a)
    /\ login.pc # "idle" => login.to # ""


(***************************************************************************)
(* C32: the sweep changes no decision.  Every request of a client gets the *)
(* answer the limiter without the sweep gives it, the two tables agree on  *)
(* every record the table still holds, and a record the table has lost is  *)
(* one whose window is over.                                               *)
(***************************************************************************)
C32_SweepKeepsDecisions ==
    /\ (lastReq.svc = "http" /\ lastReq.limited /\ lastReq.ip # CrowdIp) =>
          ((lastReq.result = "429") <=> win.plainDenied)
    /\ \A k \in DOMAIN win.plain :
          IF k \in DOMAIN rateLimit
          THEN rateLimit[k] = win.plain[k]
          ELSE now - win.plain[k].timestamp > HttpWindowMs
    /\ DOMAIN rateLimit \subseteq DOMAIN win.plain

\* A record has been swept, and a request after the sweep was refused
C32_Witness ==
    /\ DOMAIN win.plain # DOMAIN rateLimit
    /\ lastReq.svc = "http" /\ lastReq.result = "429" /\ win.plainDenied

(***************************************************************************)
(* C33.  A request changes the record of its own key only.  In every step, *)
(* each record of rateLimit is left as it was, or the step is a request of *)
(* that key, or the record is gone and was more than ten minutes old (the  *)
(* sweep); each record of analysisRateLimit is left as it was or the step  *)
(* is a request of that key; a key enters a table only by its own request; *)
(* and a step that changes one table is a request to that limiter and      *)
(* leaves the other table as it was.                                       *)
(***************************************************************************)
C33_OtherKeysUntouched ==
    [][ /\ \A k \in DOMAIN rateLimit :
              \/ HttpRequestOf(k)
              \/ k \in DOMAIN rateLimit' /\ rateLimit'[k] = rateLimit[k]
              \/ k \notin DOMAIN rateLimit' /\ now - rateLimit[k].timestamp > HttpWindowMs
        /\ \A k \in DOMAIN rateLimit' \ DOMAIN rateLimit : HttpRequestOf(k)
        /\ \A k \in DOMAIN analysisRateLimit :
              \/ AiRequestOf(k)
              \/ k \in DOMAIN analysisRateLimit' /\ analysisRateLimit'[k] = analysisRateLimit[k]
        /\ \A k \in DOMAIN analysisRateLimit' \ DOMAIN analysisRateLimit : AiRequestOf(k)
        /\ rateLimit' # rateLimit \/ others' # others =>
              lastReq'.svc = "http" /\ analysisRateLimit' = analysisRateLimit
        /\ analysisRateLimit' # analysisRateLimit =>
              lastReq'.svc = "ai" /\ rateLimit' = rateLimit /\ others' = others
      ]_vars

\* Each table holds the records of two keys, one of them at its limit, and
\* the last request was refused
C33_Witness ==
    /\ Cardinality(DOMAIN rateLimit) >= 2
    /\ Cardinality(DOMAIN analysisRateLimit) >= 2
    /\ \/ lastReq.svc = "http" /\ lastReq.result = "429"
       \/ lastReq.svc = "ai" /\ lastReq.result = "limit"

(***************************************************************************)
(* C34.  A refused request leaves the start of the window where it was, in *)
(* both limiters, and a request made more than a window length after the   *)
(* start of the window found in the record is allowed, however many        *)
(* requests were refused in between.                                       *)
(***************************************************************************)
C34_DeniedKeepsWindowStart ==
    [][ /\ \A k \in DOMAIN rateLimit : HttpRequestOf(k) =>
              /\ lastReq'.result = "429" =>
                    /\ k \in DOMAIN rateLimit'
                    /\ rateLimit'[k].timestamp = rateLimit[k].timestamp
              /\ now - rateLimit[k].timestamp > HttpWindowMs => lastReq'.result # "429"
        /\ \A k \in DOMAIN analysisRateLimit : AiRequestOf(k) =>
              /\ lastReq'.result = "limit" =>
                    analysisRateLimit'[k].timestamp = analysisRateLimit[k].timestamp
              /\ now - analysisRateLimit[k].timestamp > AiWindowMs => lastReq'.result # "limit"
      ]_vars

\* A key that was refused is allowed again right after its window
C34_Witness ==
    \E k \in DOMAIN rateLimit \cap DOMAIN win.http :
       /\ win.http[k].refused
       /\ lastReq.svc = "http" /\ lastReq.ip = k /\ lastReq.result = "next"
       /\ rateLimit[k] = [count |-> 1, timestamp |-> HttpWindowMs + 1]

(***************************************************************************)
(* C35.  Every record of the analysis limiter has a count from 1 to 20.    *)
(* A request reaches the AI endpoint only if it is at most the 20th of its *)
(* key in the window, an API key is configured, both fields are present    *)
(* and the image is not oversized; a request refused by the limiter does   *)
(* not reach the AI endpoint.                                              *)
(***************************************************************************)
C35_CountInRangeAndCallsChecked ==
    /\ [](\A k \in DOMAIN analysisRateLimit :
             analysisRateLimit[k].count \in 1..AiMaxRequests)
    /\ [][ \A k \in DOMAIN analysisRateLimit' : AiRequestOf(k) =>
              /\ lastReq'.called =>
                    /\ win'.ai[k].n <= AiMaxRequests
                    /\ lastReq'.result # "limit"
                    /\ apiKey
                    /\ win'.payload.len \in 1..MaxBase64Len
                    /\ win'.payload.mimeType # ""
              /\ win'.ai[k].n > AiMaxRequests => lastReq'.result = "limit" /\ ~lastReq'.called
         ]_vars

\* A key has had requests answered by the AI endpoint, has used its 20
\* requests, and its last request was refused by the limiter
C35_Witness ==
    \E k \in DOMAIN analysisRateLimit :
       /\ analysisRateLimit[k].count = AiMaxRequests
       /\ k \in win.called
       /\ lastReq.svc = "ai" /\ lastReq.hdr = k /\ lastReq.result = "limit"

(***************************************************************************)
(* C36.  A request is counted before it is validated.  A request rejected  *)
(* for a missing API key, a missing field or an oversized image has been   *)
(* counted in the record of its key: the count is one more than it was, or *)
(* 1 in a new window, and equals the number of requests of the key in the  *)
(* window.  The 21st request of a key in a window is refused by the        *)
(* limiter, whatever became of the 20 before it.                           *)
(***************************************************************************)
ValidationErrors == {"GEMINI_API_KEY is not set", "Ongeldige invoer", "Afbeelding is te groot"}

C36_CountedBeforeValidated ==
    [][ \A k \in DOMAIN analysisRateLimit' : AiRequestOf(k) =>
           /\ lastReq'.result \in ValidationErrors =>
                 /\ analysisRateLimit'[k].count = win'.ai[k].n
                 /\ analysisRateLimit'[k].count =
                       IF k \in DOMAIN analysisRateLimit
                          /\ analysisRateLimit'[k].timestamp = analysisRateLimit[k].timestamp
                          /\ now - analysisRateLimit[k].timestamp < AiWindowMs
                       THEN analysisRateLimit[k].count + 1
                       ELSE 1
           /\ win'.ai[k].n = AiMaxRequests + 1 => lastReq'.result = "limit"
      ]_vars

\* A valid request, with an API key configured, is refused by the limiter in
\* a window in which no request of its key has reached the AI endpoint
C36_Witness ==
    /\ lastReq.svc = "ai" /\ lastReq.result = "limit"
    /\ lastReq.hdr \notin win.called
    /\ apiKey
    /\ win.payload.len \in 1..MaxBase64Len /\ win.payload.mimeType # ""
    /\ win.ai[lastReq.hdr].n = AiMaxRequests + 1

(***************************************************************************)
(* C37.  The cached grant and what ends it.                                *)
(***************************************************************************)
\* A step of logout: the call begins, or its signOut has answered
LogoutStep ==
    \/ \E c \in BagToSet(calls') : c.src = "logout" /\ ~BagIn(c, calls)
    \/ done'.who = Null /\ done' # NoDone /\ done'.src = "logout"

\* The entry of an email can be read, says 'true' and is less than 30 days old
Unexpired(e) ==
    /\ storageOk
    /\ cache[e].access = "true"
    /\ cache[e].ts \notin {NoTs, BadTs, EmptyTs}
    /\ clock - cache[e].ts < CacheMs

C40_LogoutClearsUserOnSuccessOnly ==
    [][ /\ (done'.who = Null /\ done' # NoDone /\ done'.src = "logout") =>
              IF currentUser' = Null /\ done'.ok
              THEN user' = Null /\ done'.toast = "Logged out successfully"
              ELSE /\ ~done'.ok /\ currentUser' = currentUser
                   /\ user' = user /\ loading' = loading
                   /\ done'.toast = "Logout failed" /\ fx'.toast = Sat(fx.toast)
        /\ (\E c \in BagToSet(calls') : c.src = "logout" /\ ~BagIn(c, calls)) =>
              user' = user /\ loading' = loading
      ]_vars

\* A logout has failed: the user is still set and the session is still there
C40_Witness ==
    /\ done.who = Null /\ done # NoDone /\ done.src = "logout" /\ ~done.ok
    /\ user = Alice /\ currentUser = Alice

(***************************************************************************)
(* C38.  When the effect is cleaned up and run again during the start-up   *)
(* delay, initialization ends with a live listener.  Once the delay is     *)
(* over a listener is registered whose isActive is true, and every         *)
(* notification it is called with is processed: one with a user invokes    *)
(* checkAccess for that user, and one without a user, with no redirect     *)
(* pending, sets loading to false.                                         *)
(***************************************************************************)
C38_ListenerLiveAfterRemount ==
    /\ [](initPc \notin {"off", "delay"} => subscribed /\ isActive)
    /\ [][ ListenerCalled =>
              /\ Head(events) # Null => Invoked(Head(events))
              /\ (Head(events) = Null /\ ~StillPending(pending)) => user' = Null /\ ~loading'
         ]_vars

\* What the code does: after a remount during the delay the listener that
\* is registered ignores every notification
C38_ListenerDeadAfterRemount ==
    /\ subscribed /\ ~isActive /\ initPc = "done"
    /\ loading /\ events = <<>> /\ calls = EmptyBag
    /\ signIns > 0

(***************************************************************************)
(* C39.  A user never has more than 100 meals of the current month stored, *)
(* also when two submissions of the user overlap.                          *)
(***************************************************************************)
C39_AtMostHundredMeals == form.meals <= MonthlyLimit

====
